---- MODULE Spec2Model ----
(***************************************************************************)
(* cc-quarkonium/gocode-tasks: the buff_reader pipeline.                   *)
(*                                                                         *)
(* Pipe runs three stages in one errgroup: runNext (accumulator),          *)
(* runProcess (worker pool) and runCommit (commit sequencer), connected by *)
(* the unbuffered channels batchCh and procCh.  The source file            *)
(* src/buff_reader/task_expected.go holds two variants of the pipeline:    *)
(*   "single" (lines 1-224):   one accumulating loop, Config.processWorkers*)
(*                             workers, end-of-data is ErrEofCommitCookie; *)
(*   "multi"  (lines 226-455): nextWorkers accumulating loops sharing one  *)
(*                             atomic seqCounter, nextWorkers processing   *)
(*                             workers, end-of-data is eofCommitCookie.    *)
(* Goroutines of one pool have no identity, so a pool is a bag of the      *)
(* local states of its goroutines.                                         *)
(***************************************************************************)
EXTENDS Integers, Sequences, FiniteSets, Bags, TLC

\* Bounds of the model.
MaxPulls == 3        \* single: most Next calls of one run that return data
MaxPullsMulti == 2   \* multi: most Next calls of one run that return data
MaxPullSize == 2     \* most items one Next call returns
MaxItems == 2        \* largest maxItems a run is configured with
MaxWorkers == 2      \* largest pool size a run is configured with
MaxSeq == 2          \* runCommit alone: largest sequence a sender puts on procCh
MaxLogs == 4         \* most SequentialLogger.Log calls of one run
LogCallers == 2      \* goroutines that call SequentialLogger.Log
MaxBatch == 3        \* the batchSize the logger runs with
MaxID == 4           \* CopyTable: largest row id of PROD
MaxRowBatch == 2     \* CopyTable: largest batchSize a run is built with
MaxSavers == 2       \* CopyTable: largest number of saving workers

\* src/buff_reader/task_expected.go:267
eofCommitCookie == -1

\* src/buff_reader/task_expected.go:265 (5 in the source; the model runs the
\* pool at the bound MaxWorkers)
nextWorkers == MaxWorkers

\* src/unnamed/part_002:57
bufSize == 1

\* src/unnamed/part_002:58 (100 in the source; the model runs the logger at
\* the bound MaxBatch)
batchSize == MaxBatch

\* Error values, by the sentinel errors.Is matches.
Nil == "nil"
ErrEofCommitCookie == "ErrEofCommitCookie"
ErrNextFailed == "ErrNextFailed"
ErrProcessFailed == "ErrProcessFailed"
ErrCommitFailed == "ErrCommitFailed"
ErrCommitSeqViolated == "ErrCommitSeqViolated"
Canceled == "context.Canceled"
ErrProducer == "producer error"

VARIABLES
  variant,        \* "single" or "multi"
  config,         \* [maxItems, processWorkers]
  nextLog,        \* cookies returned by Producer.Next with data, in call order
  eof,            \* the Producer has signalled end-of-data
  seqCounter,     \* runNext's seqCounter
  accs,           \* bag of accumulating loops (runNext)
  procs,          \* bag of processing workers (runProcess)
  batchChClosed,  \* close(batchCh) has run
  procChClosed,   \* close(procCh) has run
  runNextPc,      \* "run", "closed" (deferred close done), "done" (returned to the group)
  runNextErr,     \* the value runNext returns
  nextCtxDone,    \* multi: the context of runNext's inner errgroup is cancelled
  runProcessPc,   \* as runNextPc
  runProcessErr,  \* the value runProcess returns (its inner group's error)
  procCtxDone,    \* the context of runProcess's inner errgroup is cancelled
  commitPc,       \* runCommit: "recv", "commit", "done"
  runCommitErr,   \* the value runCommit returns
  nextSeq,        \* runCommit's nextSeq
  buffer,         \* runCommit's buffer: seq -> batch
  ci,             \* runCommit: index of the next cookie of buffer[nextSeq] to commit
  grErr,          \* Pipe's errgroup: the first error captured
  ctxDone,        \* Pipe's errgroup context is cancelled
  pipePc,         \* "running" or "returned" (gr.Wait returned grErr)
  created,        \* history: created[s+1] is the batch that took sequence s
  commitLog,      \* history: the Producer.Commit calls, [cookie, seq, ok]
  processCalls,   \* history: number of Consumer.Process invocations
  nextFailed,     \* history: a Next call returned an error other than end-of-data
  processFailed,  \* history: sequences of the batches on which Process failed
  pullSizes,      \* history: pullSizes[c] is the number of items of the pull with cookie c
  processed,      \* history: the batches whose items were passed to Consumer.Process
  delivered       \* history: the batches runCommit read from procCh

pipeVars == <<variant, config, nextLog, eof, seqCounter, accs, procs,
              batchChClosed, procChClosed, runNextPc, runNextErr, nextCtxDone,
              runProcessPc, runProcessErr, procCtxDone, commitPc, runCommitErr,
              nextSeq, buffer, ci, grErr, ctxDone, pipePc,
              created, commitLog, processCalls, nextFailed, processFailed,
              pullSizes, processed, delivered>>

VARIABLES
  workerPc,       \* worker: "none" (no logger), "select", "flush", "flushClose", "done"
  batchCh,        \* sl.batchCh: the messages buffered in the channel
  batchChShut,    \* close(sl.batchCh) has run
  batch,          \* worker's batch
  doneClosed,     \* close(sl.done) has run
  callers,        \* the goroutines calling Log (or a second Close): [pc, msg]
  closePc,        \* the goroutine calling Close: "idle", "wait", "returned"
  issued,         \* history: number of Log calls made
  logged,         \* history: the messages of the Log calls, in the order they completed
  loggedAtClose,  \* history: logged when Close was called
  written,        \* history: the data strings passed to wrappedLogger.Log
  wrappedClosedAt,\* history: -1, or Len(written) when wrappedLogger.Close was called
  ticked,         \* history: the worker took the ticker case at least once
  wrappedFailed,  \* history: a wrappedLogger.Log call returned an error
  logReturns      \* history: the values the Log calls returned

logVars == <<workerPc, batchCh, batchChShut, batch, doneClosed, callers, closePc,
             issued, logged, loggedAtClose, written, wrappedClosedAt, ticked,
             wrappedFailed, logReturns>>

VARIABLES
  copyVariant,    \* "none", "easy" (pg_servers_easy), "jobs" (pg_servers_hard), "errgroup" (part_004)
  copyConfig,     \* [batchSize, workers]: the constants CopyTable is built with
  full,           \* CopyTable's argument full
  prod,           \* PROD: the ids of its rows
  stats,          \* STATS: the ids of its rows
  copyPc,         \* CopyTable / its producing loop: "none", "start", "end", "load",
                  \* "send", "wait", "waitCtx", "waitLoad", "returned"
  startID,        \* CopyTable's startID
  endID,          \* CopyTable's endID
  curID,          \* the producing loop's curID
  batchRows,      \* the producing loop's batchRows (easy: rows), as ids in order
  intervals,      \* easy: the intervals splitOnBatches has still to deliver
  rowsCh,         \* the batches buffered in jobs / rowsCh
  rowsChClosed,   \* close(jobs) / close(rowsCh) has run
  savers,         \* bag of saving workers: [pc, rows]
  copyCtxDone,    \* ctx (jobs) / gctx (errgroup) is cancelled
  firstErr,       \* the error held by errCh (jobs) / by the errgroup
  loadErr,        \* jobs: the LoadRows error CopyTable returns after wg.Wait
  copyErr,        \* the value CopyTable returned
  stats0,         \* history: STATS when CopyTable was called
  formed,         \* history: the batches the producing loop formed, in order
  saveCalls,      \* history: the batches passed to SaveRows
  loaded,         \* history: LoadRows was called
  maxIDFailed     \* history: a GetMaxID call returned a non-temporary error

copyVars == <<copyVariant, copyConfig, full, prod, stats, copyPc, startID, endID,
              curID, batchRows, intervals, rowsCh, rowsChClosed, savers,
              copyCtxDone, firstErr, loadErr, copyErr, stats0, formed,
              saveCalls, loaded, maxIDFailed>>

VARIABLES
  retryIn,        \* a withRetry call on its own: <<[variant, outs, done]>>, or NoCall
  retryOut,       \* <<what the call returned>>, or NoCall
  splitArgs,      \* a splitOnBatches call on its own: <<[start, end, size]>>, or NoCall
  splitPc,        \* its goroutine: "none", "loop", "closed"
  splitI,         \* its loop variable i
  splitSent       \* history: the intervals it put on the channel, in order

callVars == <<retryIn, retryOut, splitArgs, splitPc, splitI, splitSent>>

vars == <<pipeVars, logVars, copyVars, callVars>>

(***************************************************************************)
(* Data                                                                    *)
(***************************************************************************)
NoBatch == [seq |-> -1, items |-> <<>>, cookies |-> <<>>]

\* batch{seq, items, cookies}; an item is tagged with the cookie of its pull
Batch(seq, items, cookies) == [seq |-> seq, items |-> items, cookies |-> cookies]

\* an accumulating loop: buf and cookies are the loop's locals, items and
\* cookie the pull held while the loop is blocked on a flush, b the batch
\* being written
FreshAcc == [pc |-> "next", buf |-> <<>>, cookies |-> <<>>,
             items |-> <<>>, cookie |-> 0, b |-> NoBatch, err |-> Nil]

Return(e) == [pc |-> "done", buf |-> <<>>, cookies |-> <<>>,
              items |-> <<>>, cookie |-> 0, b |-> NoBatch, err |-> e]

FreshProc == [pc |-> "recv", b |-> NoBatch]

DoneProc == [pc |-> "done", b |-> NoBatch]

Pool(x, n) == IF n = 0 THEN EmptyBag ELSE [e \in {x} |-> n]

Swap(B, old, new) == (B (-) SetToBag({old})) (+) SetToBag({new})

AllDone(B) == \A x \in BagToSet(B) : x.pc = "done"

\* errgroup.Group: errOnce keeps the first non-nil error ...
GroupErr(cur, e) == IF cur = Nil THEN e ELSE cur

\* ... and cancels the group's context on it
GroupCancel(done, e) == done \/ e # Nil

(***************************************************************************)
(* Pipe                                                                    *)
(***************************************************************************)
\* a wrapped chain of errors, outermost message first; no error is the empty chain
NoErr == <<>>

\* a call is <<>> when there is none, else the one-element sequence of its record
NoCall == <<>>

\* no withRetry and no splitOnBatches call on its own in the run
CallsOff ==
  /\ retryIn = NoCall
  /\ retryOut = NoCall
  /\ splitArgs = NoCall
  /\ splitPc = "none"
  /\ splitI = 0
  /\ splitSent = <<>>

\* no CopyTable in the run
CopyOff ==
  /\ copyVariant = "none"
  /\ copyConfig = [batchSize |-> 0, workers |-> 0]
  /\ full = FALSE
  /\ prod = {}
  /\ stats = {}
  /\ copyPc = "none"
  /\ startID = 0
  /\ endID = 0
  /\ curID = 0
  /\ batchRows = <<>>
  /\ intervals = <<>>
  /\ rowsCh = <<>>
  /\ rowsChClosed = FALSE
  /\ savers = EmptyBag
  /\ copyCtxDone = FALSE
  /\ firstErr = NoErr
  /\ loadErr = NoErr
  /\ copyErr = NoErr
  /\ stats0 = {}
  /\ formed = <<>>
  /\ saveCalls = {}
  /\ loaded = FALSE
  /\ maxIDFailed = FALSE

\* no SequentialLogger in the run
LoggerOff ==
  /\ workerPc = "none"
  /\ batchCh = <<>>
  /\ batchChShut = FALSE
  /\ batch = <<>>
  /\ doneClosed = FALSE
  /\ callers = <<>>
  /\ closePc = "idle"
  /\ issued = 0
  /\ logged = <<>>
  /\ loggedAtClose = <<>>
  /\ written = <<>>
  /\ wrappedClosedAt = -1
  /\ ticked = FALSE
  /\ wrappedFailed = FALSE
  /\ logReturns = {}

InitCommon ==
  /\ nextLog = <<>>
  /\ eof = FALSE
  /\ seqCounter = 0
  /\ batchChClosed = FALSE
  /\ procChClosed = FALSE
  /\ runNextPc = "run"
  /\ runNextErr = Nil
  /\ nextCtxDone = FALSE
  /\ runProcessPc = "run"
  /\ runProcessErr = Nil
  /\ procCtxDone = FALSE
  /\ commitPc = "recv"
  /\ runCommitErr = Nil
  /\ nextSeq = 0
  /\ buffer = [s \in {} |-> NoBatch]
  /\ ci = 1
  /\ grErr = Nil
  /\ ctxDone = FALSE
  /\ pipePc = "running"
  /\ created = <<>>
  /\ commitLog = <<>>
  /\ processCalls = 0
  /\ nextFailed = FALSE
  /\ processFailed = {}
  /\ pullSizes = <<>>
  /\ processed = {}
  /\ delivered = {}

\* a pool that starts one goroutine more than configured
PoolSizeOneMore(cfg) == cfg.processWorkers + 1

\* for range config.processWorkers { gr.Go(...) }
PoolSize(cfg) == cfg.processWorkers

InitSingle ==
  /\ variant = "single"
  /\ config \in [maxItems : 0..MaxItems, processWorkers : 1..MaxWorkers]
  /\ accs = Pool(FreshAcc, 1)
  /\ procs = Pool(FreshProc, PoolSize(config))
  /\ InitCommon
  /\ LoggerOff
  /\ CopyOff
  /\ CallsOff

InitMulti ==
  /\ variant = "multi"
  /\ config \in [maxItems : 0..MaxItems, processWorkers : {nextWorkers}]
  /\ accs = Pool(FreshAcc, nextWorkers)
  /\ procs = Pool(FreshProc, nextWorkers)
  /\ InitCommon
  /\ LoggerOff
  /\ CopyOff
  /\ CallsOff

Init == InitSingle \/ InitMulti

(***************************************************************************)
(* Producer.Next                                                           *)
(***************************************************************************)
NextCookie == Len(nextLog) + 1

PullBound == IF variant = "single" THEN MaxPulls ELSE MaxPullsMulti

DataResults ==
  IF ~eof /\ Len(nextLog) < PullBound
  THEN {[items |-> [i \in 1..n |-> NextCookie], cookie |-> NextCookie, err |-> Nil] :
          n \in 1..MaxPullSize}
  ELSE {}

EofResult ==
  IF variant = "single"
  THEN [items |-> <<>>, cookie |-> 0, err |-> ErrEofCommitCookie]
  ELSE [items |-> <<>>, cookie |-> eofCommitCookie, err |-> Nil]

ErrResult == [items |-> <<>>, cookie |-> 0, err |-> ErrProducer]

(***************************************************************************)
(* runNext                                                                 *)
(***************************************************************************)
\* a threshold that lets one item too many into the buffer
NeedFlushLate(buf, items, maxItems) == Len(buf) + Len(items) > maxItems + 1

\* a threshold that closes the batch when the pull would fill it
NeedFlushAtFull(buf, items, maxItems) == Len(buf) + Len(items) >= maxItems

\* if len(buf)+len(items) > maxItems
NeedFlush(buf, items, maxItems) == Len(buf) + Len(items) > maxItems

\* an end-of-data that drops the partial batch
EofFlushNever(buf) == FALSE

\* an end-of-data that flushes even an empty buffer
EofFlushAlways(buf) == TRUE

\* if len(buf) > 0, on end-of-data
EofFlush(buf) == Len(buf) > 0

\* an accumulator that puts the new cookie in front of the list
AccumulateFront(a, r) ==
  IF Len(a.buf) + Len(r.items) > config.maxItems
  THEN [a EXCEPT !.pc = "seq", !.items = r.items, !.cookie = r.cookie]
  ELSE [a EXCEPT !.buf = a.buf \o r.items, !.cookies = <<r.cookie>> \o a.cookies]

\* an accumulator that tops the buffer up with the head of a pull that does
\* not fit and keeps the rest of the pull for the next batch
AccumulateSplit(a, r) ==
  IF NeedFlush(a.buf, r.items, config.maxItems)
  THEN LET k == IF config.maxItems > Len(a.buf) THEN config.maxItems - Len(a.buf) ELSE 0 IN
         [a EXCEPT !.pc = "seq",
                   !.buf = a.buf \o SubSeq(r.items, 1, k),
                   !.cookies = IF k > 0 THEN Append(a.cookies, r.cookie) ELSE a.cookies,
                   !.items = SubSeq(r.items, k + 1, Len(r.items)),
                   !.cookie = r.cookie]
  ELSE [a EXCEPT !.buf = a.buf \o r.items, !.cookies = Append(a.cookies, r.cookie)]

\* buf = append(buf, items...); cookies = append(cookies, cookie), after
\* the flush of buf when the items do not fit
Accumulate(a, r) ==
  IF NeedFlush(a.buf, r.items, config.maxItems)
  THEN [a EXCEPT !.pc = "seq", !.items = r.items, !.cookie = r.cookie]
  ELSE [a EXCEPT !.buf = a.buf \o r.items, !.cookies = Append(a.cookies, r.cookie)]

OnEof(a) == IF EofFlush(a.buf) THEN [a EXCEPT !.pc = "seqEof"] ELSE Return(Nil)

\* a loop that treats a Next error as the end of the data
OnNextErrFlush(a) == OnEof(a)

\* if err != nil: return ErrNextFailed
OnNextErr(a) == Return(ErrNextFailed)

\* one iteration of the single loop on the result r of p.Next()
StepSingle(a, r) ==
  IF r.err = ErrEofCommitCookie THEN OnEof(a)
  ELSE IF r.err # Nil THEN OnNextErr(a)
  ELSE Accumulate(a, r)

\* one iteration of a multi worker's loop on the result r of p.Next()
StepMulti(a, r) ==
  IF r.err # Nil THEN OnNextErr(a)
  ELSE IF r.cookie = eofCommitCookie THEN OnEof(a)
  ELSE Accumulate(a, r)

Step(a, r) == IF variant = "single" THEN StepSingle(a, r) ELSE StepMulti(a, r)

\* the loop a moves to a2; a loop that returned hands its error to runNext
\* (single: runNext's return value; multi: the inner errgroup, which cancels
\* the inner context)
AccMove(a, a2) ==
  /\ accs' = Swap(accs, a, [a2 EXCEPT !.err = Nil])
  /\ runNextErr' = GroupErr(runNextErr, a2.err)
  /\ nextCtxDone' = IF variant = "multi" THEN GroupCancel(nextCtxDone, a2.err)
                    ELSE nextCtxDone

\* the context the loop's writeChanWithContext watches
AccCtxDone == IF variant = "single" THEN ctxDone ELSE nextCtxDone \/ ctxDone

NextData(a) ==
  /\ a.pc = "next"
  /\ \E r \in DataResults :
       /\ nextLog' = Append(nextLog, r.cookie)
       /\ pullSizes' = Append(pullSizes, Len(r.items))
       /\ AccMove(a, Step(a, r))
  /\ UNCHANGED <<logVars, copyVars, callVars, processed, delivered,
                 variant, config, eof, seqCounter, procs, batchChClosed,
                 procChClosed, runNextPc, runProcessPc, runProcessErr,
                 procCtxDone, commitPc, runCommitErr, nextSeq, buffer, ci,
                 grErr, ctxDone, pipePc, created, commitLog, processCalls,
                 nextFailed, processFailed>>

NextEof(a) ==
  /\ a.pc = "next"
  /\ eof' = TRUE
  /\ AccMove(a, Step(a, EofResult))
  /\ UNCHANGED <<logVars, copyVars, callVars, pullSizes, processed, delivered,
                 variant, config, nextLog, seqCounter, procs, batchChClosed,
                 procChClosed, runNextPc, runProcessPc, runProcessErr,
                 procCtxDone, commitPc, runCommitErr, nextSeq, buffer, ci,
                 grErr, ctxDone, pipePc, created, commitLog, processCalls,
                 nextFailed, processFailed>>

NextErr(a) ==
  /\ a.pc = "next"
  /\ nextFailed' = TRUE
  /\ AccMove(a, Step(a, ErrResult))
  /\ UNCHANGED <<logVars, copyVars, callVars, pullSizes, processed, delivered,
                 variant, config, nextLog, eof, seqCounter, procs,
                 batchChClosed, procChClosed, runNextPc, runProcessPc,
                 runProcessErr, procCtxDone, commitPc, runCommitErr, nextSeq,
                 buffer, ci, grErr, ctxDone, pipePc, created, commitLog,
                 processCalls, processFailed>>

\* an increment that is lost
AddInt64Lost(n) == n

\* atomic.AddInt64(&seqCounter, 1)
AddInt64(n) == n + 1

\* seq: int(atomic.AddInt64(&seqCounter, 1) - 1), and the batch built from
\* clones of buf and cookies
AssignSeq(a) ==
  /\ a.pc \in {"seq", "seqEof"}
  /\ LET b == Batch(seqCounter, a.buf, a.cookies) IN
       /\ seqCounter' = AddInt64(seqCounter)
       /\ created' = Append(created, b)
       /\ AccMove(a, [a EXCEPT !.pc = IF a.pc = "seq" THEN "write" ELSE "writeEof",
                               !.b = b])
  /\ UNCHANGED <<logVars, copyVars, callVars, pullSizes, processed, delivered,
                 variant, config, nextLog, eof, procs, batchChClosed,
                 procChClosed, runNextPc, runProcessPc, runProcessErr,
                 procCtxDone, commitPc, runCommitErr, nextSeq, buffer, ci,
                 grErr, ctxDone, pipePc, commitLog, processCalls, nextFailed,
                 processFailed>>

\* a write that does not watch the context
WriteDoneNever(done) == FALSE

\* writeChanWithContext: case <-ctx.Done()
WriteDone(done) == done

\* readChanWithContext: case <-ctx.Done()
ReadDone(done) == done

WriteCancel(a) ==
  /\ a.pc \in {"write", "writeEof"}
  /\ WriteDone(AccCtxDone)
  /\ AccMove(a, Return(Canceled))
  /\ UNCHANGED <<logVars, copyVars, callVars, pullSizes, processed, delivered,
                 variant, config, nextLog, eof, seqCounter, procs,
                 batchChClosed, procChClosed, runNextPc, runProcessPc,
                 runProcessErr, procCtxDone, commitPc, runCommitErr, nextSeq,
                 buffer, ci, grErr, ctxDone, pipePc, created, commitLog,
                 processCalls, nextFailed, processFailed>>

\* a loop that forgets the pull it held while it was blocked on the write
AfterWriteDrop(a) ==
  IF a.pc = "writeEof" THEN Return(Nil)
  ELSE [pc |-> "next", buf |-> <<>>, cookies |-> <<>>,
        items |-> <<>>, cookie |-> 0, b |-> NoBatch, err |-> Nil]

\* the loop after its write returned nil
AfterWrite(a) ==
  IF a.pc = "writeEof" THEN Return(Nil)
  ELSE [pc |-> "next", buf |-> a.items, cookies |-> <<a.cookie>>,
        items |-> <<>>, cookie |-> 0, b |-> NoBatch, err |-> Nil]

\* batchCh is unbuffered: a write of a loop meets a read of a worker, which
\* then calls c.Process(b.items)
Handoff(a, w) ==
  /\ a.pc \in {"write", "writeEof"}
  /\ w.pc = "recv"
  /\ AccMove(a, AfterWrite(a))
  /\ procs' = Swap(procs, w, [pc |-> "process", b |-> a.b])
  /\ processCalls' = processCalls + 1
  /\ processed' = processed \cup {a.b}
  /\ UNCHANGED <<logVars, copyVars, callVars, pullSizes, delivered,
                 variant, config, nextLog, eof, seqCounter, batchChClosed,
                 procChClosed, runNextPc, runProcessPc, runProcessErr,
                 procCtxDone, commitPc, runCommitErr, nextSeq, buffer, ci,
                 grErr, ctxDone, pipePc, created, commitLog, nextFailed,
                 processFailed>>

\* every loop returned: (multi: gr.Wait returns;) the deferred close(batchCh)
RunNextClose ==
  /\ runNextPc = "run"
  /\ AllDone(accs)
  /\ batchChClosed' = TRUE
  /\ runNextPc' = "closed"
  /\ UNCHANGED <<logVars, copyVars, callVars, pullSizes, processed, delivered,
                 variant, config, nextLog, eof, seqCounter, accs, procs,
                 procChClosed, runNextErr, nextCtxDone, runProcessPc,
                 runProcessErr, procCtxDone, commitPc, runCommitErr, nextSeq,
                 buffer, ci, grErr, ctxDone, pipePc, created, commitLog,
                 processCalls, nextFailed, processFailed>>

\* runNext's value reaches Pipe's errgroup
RunNextReturn ==
  /\ runNextPc = "closed"
  /\ runNextPc' = "done"
  /\ grErr' = GroupErr(grErr, runNextErr)
  /\ ctxDone' = GroupCancel(ctxDone, runNextErr)
  /\ UNCHANGED <<logVars, copyVars, callVars, pullSizes, processed, delivered,
                 variant, config, nextLog, eof, seqCounter, accs, procs,
                 batchChClosed, procChClosed, runNextErr, nextCtxDone,
                 runProcessPc, runProcessErr, procCtxDone, commitPc,
                 runCommitErr, nextSeq, buffer, ci, pipePc, created, commitLog,
                 processCalls, nextFailed, processFailed>>

(***************************************************************************)
(* runProcess                                                              *)
(***************************************************************************)
\* the context of runProcess's inner errgroup is a child of Pipe's
ProcCtxDone == procCtxDone \/ ctxDone

\* the worker w returns e to the inner errgroup
ProcReturn(w, e) ==
  /\ procs' = Swap(procs, w, DoneProc)
  /\ runProcessErr' = GroupErr(runProcessErr, e)
  /\ procCtxDone' = GroupCancel(procCtxDone, e)

ReadCancel(w) ==
  /\ w.pc = "recv"
  /\ ReadDone(ProcCtxDone)
  /\ ProcReturn(w, Canceled)
  /\ UNCHANGED <<logVars, copyVars, callVars, pullSizes, processed, delivered,
                 variant, config, nextLog, eof, seqCounter, accs,
                 batchChClosed, procChClosed, runNextPc, runNextErr,
                 nextCtxDone, runProcessPc, commitPc, runCommitErr, nextSeq,
                 buffer, ci, grErr, ctxDone, pipePc, created, commitLog,
                 processCalls, nextFailed, processFailed>>

ReadClosed(w) ==
  /\ w.pc = "recv"
  /\ batchChClosed
  /\ ProcReturn(w, Nil)
  /\ UNCHANGED <<logVars, copyVars, callVars, pullSizes, processed, delivered,
                 variant, config, nextLog, eof, seqCounter, accs,
                 batchChClosed, procChClosed, runNextPc, runNextErr,
                 nextCtxDone, runProcessPc, commitPc, runCommitErr, nextSeq,
                 buffer, ci, grErr, ctxDone, pipePc, created, commitLog,
                 processCalls, nextFailed, processFailed>>

ProcessOk(w) ==
  /\ w.pc = "process"
  /\ procs' = Swap(procs, w, [w EXCEPT !.pc = "send"])
  /\ UNCHANGED <<logVars, copyVars, callVars, pullSizes, processed, delivered,
                 variant, config, nextLog, eof, seqCounter, accs,
                 batchChClosed, procChClosed, runNextPc, runNextErr,
                 nextCtxDone, runProcessPc, runProcessErr, procCtxDone,
                 commitPc, runCommitErr, nextSeq, buffer, ci, grErr, ctxDone,
                 pipePc, created, commitLog, processCalls, nextFailed,
                 processFailed>>

ProcessFail(w) ==
  /\ w.pc = "process"
  /\ ProcReturn(w, ErrProcessFailed)
  /\ processFailed' = processFailed \cup {w.b.seq}
  /\ UNCHANGED <<logVars, copyVars, callVars, pullSizes, processed, delivered,
                 variant, config, nextLog, eof, seqCounter, accs,
                 batchChClosed, procChClosed, runNextPc, runNextErr,
                 nextCtxDone, runProcessPc, commitPc, runCommitErr, nextSeq,
                 buffer, ci, grErr, ctxDone, pipePc, created, commitLog,
                 processCalls, nextFailed>>

SendCancel(w) ==
  /\ w.pc = "send"
  /\ WriteDone(ProcCtxDone)
  /\ ProcReturn(w, Canceled)
  /\ UNCHANGED <<logVars, copyVars, callVars, pullSizes, processed, delivered,
                 variant, config, nextLog, eof, seqCounter, accs,
                 batchChClosed, procChClosed, runNextPc, runNextErr,
                 nextCtxDone, runProcessPc, commitPc, runCommitErr, nextSeq,
                 buffer, ci, grErr, ctxDone, pipePc, created, commitLog,
                 processCalls, nextFailed, processFailed>>

\* buffer[batch.seq] = batch
Put(buf, b) == [s \in DOMAIN buf \cup {b.seq} |-> IF s = b.seq THEN b ELSE buf[s]]

\* a delete that removes nothing
DeleteNone(buf, n) == buf

\* delete(buffer, nextSeq)
Delete(buf, n) == [s \in DOMAIN buf \ {n} |-> buf[s]]

\* a sequencer that commits whatever has arrived, latest sequence first
CommitKeyArrived(buf, n) ==
  IF DOMAIN buf = {} THEN n
  ELSE CHOOSE s \in DOMAIN buf : \A t \in DOMAIN buf : t <= s

\* b, exists := buffer[nextSeq]: the key looked up (and deleted after the
\* batch's cookies are committed)
CommitKey(buf, n) == n

Exists(buf, n) == CommitKey(buf, n) \in DOMAIN buf

\* the commit loop over the batches that have no cookie left to commit:
\* delete(buffer, nextSeq); nextSeq++ while such a batch is at nextSeq
RECURSIVE Drain(_, _)
Drain(buf, n) ==
  IF Exists(buf, n) /\ buf[CommitKey(buf, n)].cookies = <<>>
  THEN Drain(Delete(buf, CommitKey(buf, n)), n + 1)
  ELSE [buffer |-> buf, nextSeq |-> n]

\* runCommit is in the commit loop with d.buffer and d.nextSeq: it stays in
\* it while a batch is at nextSeq, else it breaks to read procCh again
CommitLoop(d) ==
  /\ buffer' = d.buffer
  /\ nextSeq' = d.nextSeq
  /\ ci' = 1
  /\ commitPc' = IF Exists(d.buffer, d.nextSeq) THEN "commit" ELSE "recv"

\* procCh is unbuffered: a write of a worker meets runCommit's read
Deliver(w) ==
  /\ w.pc = "send"
  /\ commitPc = "recv"
  /\ procs' = Swap(procs, w, FreshProc)
  /\ CommitLoop(Drain(Put(buffer, w.b), nextSeq))
  /\ delivered' = delivered \cup {w.b}
  /\ UNCHANGED <<logVars, copyVars, callVars, pullSizes, processed,
                 variant, config, nextLog, eof, seqCounter, accs,
                 batchChClosed, procChClosed, runNextPc, runNextErr,
                 nextCtxDone, runProcessPc, runProcessErr, procCtxDone,
                 runCommitErr, grErr, ctxDone, pipePc, created,
                 commitLog, processCalls, nextFailed, processFailed>>

\* every worker returned: gr.Wait returns, then the deferred close(procCh)
RunProcessClose ==
  /\ runProcessPc = "run"
  /\ AllDone(procs)
  /\ procChClosed' = TRUE
  /\ runProcessPc' = "closed"
  /\ UNCHANGED <<logVars, copyVars, callVars, pullSizes, processed, delivered,
                 variant, config, nextLog, eof, seqCounter, accs, procs,
                 batchChClosed, runNextPc, runNextErr, nextCtxDone,
                 runProcessErr, procCtxDone, commitPc, runCommitErr, nextSeq,
                 buffer, ci, grErr, ctxDone, pipePc, created, commitLog,
                 processCalls, nextFailed, processFailed>>

\* runProcess's value reaches Pipe's errgroup
RunProcessReturn ==
  /\ runProcessPc = "closed"
  /\ runProcessPc' = "done"
  /\ grErr' = GroupErr(grErr, runProcessErr)
  /\ ctxDone' = GroupCancel(ctxDone, runProcessErr)
  /\ UNCHANGED <<logVars, copyVars, callVars, pullSizes, processed, delivered,
                 variant, config, nextLog, eof, seqCounter, accs, procs,
                 batchChClosed, procChClosed, runNextPc, runNextErr,
                 nextCtxDone, runProcessErr, procCtxDone, commitPc,
                 runCommitErr, nextSeq, buffer, ci, pipePc, created, commitLog,
                 processCalls, nextFailed, processFailed>>

(***************************************************************************)
(* runCommit                                                               *)
(***************************************************************************)
\* runCommit returns e, which reaches Pipe's errgroup
CommitReturn(e) ==
  /\ commitPc' = "done"
  /\ runCommitErr' = e
  /\ grErr' = GroupErr(grErr, e)
  /\ ctxDone' = GroupCancel(ctxDone, e)

CommitReadCancel ==
  /\ commitPc = "recv"
  /\ ReadDone(ctxDone)
  /\ CommitReturn(Canceled)
  /\ UNCHANGED <<logVars, copyVars, callVars, pullSizes, processed, delivered,
                 variant, config, nextLog, eof, seqCounter, accs, procs,
                 batchChClosed, procChClosed, runNextPc, runNextErr,
                 nextCtxDone, runProcessPc, runProcessErr, procCtxDone,
                 nextSeq, buffer, ci, pipePc, created, commitLog,
                 processCalls, nextFailed, processFailed>>

\* a sequencer that does not look at the buffer when the channel is closed
OnClosedNil(buf) == Nil

\* if !ok: a buffer that is not empty is a violated commit sequence
OnClosed(buf) == IF DOMAIN buf # {} THEN ErrCommitSeqViolated ELSE Nil

CommitReadClosed ==
  /\ commitPc = "recv"
  /\ procChClosed
  /\ CommitReturn(OnClosed(buffer))
  /\ UNCHANGED <<logVars, copyVars, callVars, pullSizes, processed, delivered,
                 variant, config, nextLog, eof, seqCounter, accs, procs,
                 batchChClosed, procChClosed, runNextPc, runNextErr,
                 nextCtxDone, runProcessPc, runProcessErr, procCtxDone,
                 nextSeq, buffer, ci, pipePc, created, commitLog,
                 processCalls, nextFailed, processFailed>>

\* a sequencer that ignores the error of p.Commit
StopOnCommitErrNever == FALSE

\* if err := p.Commit(cookie); err != nil { return ... }
StopOnCommitErr == TRUE

\* p.Commit(cookie) for the next cookie of b.cookies; after the last cookie
\* of b, delete(buffer, nextSeq); nextSeq++
CommitCall ==
  /\ commitPc = "commit"
  /\ LET b == buffer[CommitKey(buffer, nextSeq)] IN
       \E ok \in BOOLEAN :
         /\ commitLog' = Append(commitLog,
                                [cookie |-> b.cookies[ci], seq |-> b.seq, ok |-> ok])
         /\ IF ok \/ ~StopOnCommitErr
            THEN /\ IF ci < Len(b.cookies)
                    THEN /\ ci' = ci + 1
                         /\ UNCHANGED <<commitPc, nextSeq, buffer>>
                    ELSE CommitLoop(Drain(Delete(buffer, CommitKey(buffer, nextSeq)),
                                               nextSeq + 1))
                 /\ UNCHANGED <<runCommitErr, grErr, ctxDone>>
            ELSE /\ CommitReturn(ErrCommitFailed)
                 /\ UNCHANGED <<ci, nextSeq, buffer>>
  /\ UNCHANGED <<logVars, copyVars, callVars, pullSizes, processed, delivered,
                 variant, config, nextLog, eof, seqCounter, accs, procs,
                 batchChClosed, procChClosed, runNextPc, runNextErr,
                 nextCtxDone, runProcessPc, runProcessErr, procCtxDone,
                 pipePc, created, processCalls, nextFailed, processFailed>>

\* gr.Wait() of Pipe: the three stages returned
PipeReturn ==
  /\ pipePc = "running"
  /\ runNextPc = "done"
  /\ runProcessPc = "done"
  /\ commitPc = "done"
  /\ pipePc' = "returned"
  /\ UNCHANGED <<logVars, copyVars, callVars, pullSizes, processed, delivered,
                 variant, config, nextLog, eof, seqCounter, accs, procs,
                 batchChClosed, procChClosed, runNextPc, runNextErr,
                 nextCtxDone, runProcessPc, runProcessErr, procCtxDone,
                 commitPc, runCommitErr, nextSeq, buffer, ci, grErr, ctxDone,
                 created, commitLog, processCalls, nextFailed, processFailed>>

Next ==
  \/ \E a \in BagToSet(accs) : NextData(a)
  \/ \E a \in BagToSet(accs) : NextEof(a)
  \/ \E a \in BagToSet(accs) : NextErr(a)
  \/ \E a \in BagToSet(accs) : AssignSeq(a)
  \/ \E a \in BagToSet(accs) : WriteCancel(a)
  \/ \E a \in BagToSet(accs) : \E w \in BagToSet(procs) : Handoff(a, w)
  \/ RunNextClose
  \/ RunNextReturn
  \/ \E w \in BagToSet(procs) : ReadCancel(w)
  \/ \E w \in BagToSet(procs) : ReadClosed(w)
  \/ \E w \in BagToSet(procs) : ProcessOk(w)
  \/ \E w \in BagToSet(procs) : ProcessFail(w)
  \/ \E w \in BagToSet(procs) : SendCancel(w)
  \/ \E w \in BagToSet(procs) : Deliver(w)
  \/ RunProcessClose
  \/ RunProcessReturn
  \/ CommitReadCancel
  \/ CommitReadClosed
  \/ CommitCall
  \/ PipeReturn

\* both variants
Spec == Init /\ [][Next]_vars

\* the single-accumulator Pipe
SpecSingle == InitSingle /\ [][Next]_vars

\* the multi-accumulator Pipe
SpecMulti == InitMulti /\ [][Next]_vars


\* the single-accumulator Pipe, with every enabled step eventually taken
FairSpecSingle == InitSingle /\ [][Next]_vars /\ WF_vars(Next)

(***************************************************************************)
(* runCommit alone                                                         *)
(*                                                                         *)
(* runCommit reads procCh until it is closed; here the sender is any       *)
(* goroutine: it may put any batch on the channel, a sequence twice or a   *)
(* sequence already committed included, close the channel and cancel the   *)
(* context.                                                                *)
(***************************************************************************)
\* the batches a sender may put on procCh: a sequence, with no cookie or
\* with one
EnvBatches ==
  {Batch(q, [i \in 1..n |-> q + 1], [i \in 1..n |-> q + 1]) :
     q \in 0..MaxSeq, n \in 0..1}

InitCommit ==
  /\ variant = "commit"
  /\ config = [maxItems |-> 0, processWorkers |-> 0]
  /\ accs = EmptyBag
  /\ procs = EmptyBag
  /\ InitCommon
  /\ LoggerOff
  /\ CopyOff
  /\ CallsOff

\* a write on procCh meets runCommit's read
EnvSend ==
  /\ commitPc = "recv"
  /\ ~procChClosed
  /\ \E b \in EnvBatches :
       /\ CommitLoop(Drain(Put(buffer, b), nextSeq))
       /\ delivered' = delivered \cup {b}
  /\ UNCHANGED <<logVars, copyVars, callVars, pullSizes, processed,
                 variant, config, nextLog, eof, seqCounter, accs, procs,
                 batchChClosed, procChClosed, runNextPc, runNextErr,
                 nextCtxDone, runProcessPc, runProcessErr, procCtxDone,
                 runCommitErr, grErr, ctxDone, pipePc, created,
                 commitLog, processCalls, nextFailed, processFailed>>

\* close(procCh)
EnvClose ==
  /\ ~procChClosed
  /\ procChClosed' = TRUE
  /\ UNCHANGED <<logVars, copyVars, callVars, pullSizes, processed, delivered,
                 variant, config, nextLog, eof, seqCounter, accs, procs,
                 batchChClosed, runNextPc, runNextErr, nextCtxDone,
                 runProcessPc, runProcessErr, procCtxDone, commitPc,
                 runCommitErr, nextSeq, buffer, ci, grErr, ctxDone, pipePc,
                 created, commitLog, processCalls, nextFailed, processFailed>>

\* the context passed to runCommit is cancelled
EnvCancel ==
  /\ ~ctxDone
  /\ ctxDone' = TRUE
  /\ UNCHANGED <<logVars, copyVars, callVars, pullSizes, processed, delivered,
                 variant, config, nextLog, eof, seqCounter, accs, procs,
                 batchChClosed, procChClosed, runNextPc, runNextErr,
                 nextCtxDone, runProcessPc, runProcessErr, procCtxDone,
                 commitPc, runCommitErr, nextSeq, buffer, ci, grErr, pipePc,
                 created, commitLog, processCalls, nextFailed, processFailed>>

CommitNext ==
  \/ EnvSend
  \/ EnvClose
  \/ EnvCancel
  \/ CommitReadCancel
  \/ CommitReadClosed
  \/ CommitCall

\* runCommit with any sender on procCh
SpecCommit == InitCommit /\ [][CommitNext]_vars

(***************************************************************************)
(* SequentialLogger (src/unnamed/part_002)                                 *)
(*                                                                         *)
(* Log sends the message on the buffered channel batchCh; one worker       *)
(* goroutine collects the messages in batch and passes them, joined, to    *)
(* the wrapped logger when batch reaches batchSize, on a tick and when the *)
(* channel is closed.  A string is the sequence of its characters.         *)
(***************************************************************************)
NewLine == "\n"

Alphabet == <<"a", "b", "c", "d", "e", "f">>

\* the messages the k-th Log call may carry: the empty string or one letter
Messages(k) == {<<>>, <<Alphabet[k]>>}

IdleCaller == [pc |-> "idle", msg |-> <<>>]

\* no Pipe in the run
PipeOff ==
  /\ variant = "none"
  /\ config = [maxItems |-> 0, processWorkers |-> 0]
  /\ accs = EmptyBag
  /\ procs = EmptyBag
  /\ InitCommon

NewSequentialLogger ==
  /\ workerPc = "select"
  /\ batchCh = <<>>
  /\ batchChShut = FALSE
  /\ batch = <<>>
  /\ doneClosed = FALSE
  /\ callers = [c \in 1..LogCallers |-> IdleCaller]
  /\ closePc = "idle"
  /\ issued = 0
  /\ logged = <<>>
  /\ loggedAtClose = <<>>
  /\ written = <<>>
  /\ wrappedClosedAt = -1
  /\ ticked = FALSE
  /\ wrappedFailed = FALSE
  /\ logReturns = {}

InitLogger == PipeOff /\ NewSequentialLogger /\ CopyOff /\ CallsOff

\* a send on a closed channel and a close of a closed channel panic, which
\* ends the program
Panicked == \E c \in DOMAIN callers : callers[c].pc \in {"panic", "closePanic"}

\* strings.Join(elems, sep)
RECURSIVE Join(_, _)
Join(elems, sep) ==
  IF elems = <<>> THEN <<>>
  ELSE IF Len(elems) = 1 THEN elems[1]
  ELSE elems[1] \o sep \o Join(Tail(elems), sep)

\* data := strings.Join(batch, "\n") + "\n"
Data(b) == Join(b, <<NewLine>>) \o <<NewLine>>

\* a worker that puts the new message in front of the batch
PrependMsg(b, msg) == <<msg>> \o b

\* batch = append(batch, msg)
AppendMsg(b, msg) == Append(b, msg)

\* a flush that has no test for an empty batch
NothingToFlushNever(b) == FALSE

\* flush: if len(batch) == 0 { return }
NothingToFlush(b) == Len(b) = 0

\* flush() on the batch b: nothing for an empty batch, else the worker
\* enters wrappedLogger.Log(data) at pcIn; pcAfter is where it goes on after
\* a flush of nothing
StartFlush(b, pcIn, pcAfter) ==
  /\ batch' = b
  /\ IF NothingToFlush(b)
     THEN /\ workerPc' = pcAfter
          /\ written' = written
          /\ doneClosed' = (doneClosed \/ pcAfter = "done")
     ELSE /\ workerPc' = pcIn
          /\ written' = Append(written, Data(b))
          /\ doneClosed' = doneClosed

\* Log is called with a message
LogCall(c) ==
  /\ ~Panicked
  /\ callers[c].pc = "idle"
  /\ issued < MaxLogs
  /\ issued' = issued + 1
  /\ \E m \in Messages(issued + 1) :
       callers' = [callers EXCEPT ![c] = [pc |-> "send", msg |-> m]]
  /\ UNCHANGED <<pipeVars, copyVars, callVars, wrappedFailed, logReturns, ticked, workerPc, batchCh,
                 batchChShut, batch, doneClosed,
                 closePc, logged, loggedAtClose, written, wrappedClosedAt>>

\* a Log that hands back the failure of an earlier wrappedLogger.Log
LogResultWrapped(failed) == IF failed THEN "wrapped log failed" ELSE Nil

\* Log: return nil
LogResult(failed) == Nil

\* sl.batchCh <- message completes when the channel has room; return nil
LogSend(c) ==
  /\ ~Panicked
  /\ callers[c].pc = "send"
  /\ ~batchChShut
  /\ Len(batchCh) < bufSize
  /\ batchCh' = Append(batchCh, callers[c].msg)
  /\ logged' = Append(logged, callers[c].msg)
  /\ callers' = [callers EXCEPT ![c] = IdleCaller]
  /\ logReturns' = logReturns \cup {LogResult(wrappedFailed)}
  /\ UNCHANGED <<pipeVars, copyVars, callVars, wrappedFailed, ticked, workerPc, batchChShut,
                 batch, doneClosed, closePc,
                 issued, loggedAtClose, written, wrappedClosedAt>>

\* sl.batchCh <- message on the closed channel
LogPanic(c) ==
  /\ ~Panicked
  /\ callers[c].pc = "send"
  /\ batchChShut
  /\ callers' = [callers EXCEPT ![c].pc = "panic"]
  /\ UNCHANGED <<pipeVars, copyVars, callVars, wrappedFailed, logReturns, ticked, workerPc, batchCh,
                 batchChShut, batch, doneClosed,
                 closePc, issued, logged, loggedAtClose, written,
                 wrappedClosedAt>>

\* a worker that flushes every message it receives
SizeFlushEvery(b) == Len(b) >= 1

\* a worker that flushes only when the batch is over batchSize
SizeFlushLate(b) == Len(b) > batchSize

\* if len(batch) >= sl.batchSize
SizeFlush(b) == Len(b) >= batchSize

\* case msg, ok := <-sl.batchCh, ok: append, and flush at batchSize
WorkerRecv ==
  /\ ~Panicked
  /\ workerPc = "select"
  /\ batchCh # <<>>
  /\ batchCh' = Tail(batchCh)
  /\ LET b == AppendMsg(batch, Head(batchCh)) IN
       IF SizeFlush(b)
       THEN StartFlush(b, "flush", "select")
       ELSE /\ batch' = b
            /\ UNCHANGED <<workerPc, written, doneClosed>>
  /\ UNCHANGED <<pipeVars, copyVars, callVars, wrappedFailed, logReturns, ticked, batchChShut, callers,
                 closePc, issued, logged,
                 loggedAtClose, wrappedClosedAt>>

\* case msg, ok := <-sl.batchCh, !ok: flush what is left and return (the
\* deferred close(sl.done) runs at the return)
WorkerRecvClosed ==
  /\ ~Panicked
  /\ workerPc = "select"
  /\ batchCh = <<>>
  /\ batchChShut
  /\ StartFlush(batch, "flushClose", "done")
  /\ UNCHANGED <<pipeVars, copyVars, callVars, wrappedFailed, logReturns, ticked, batchCh, batchChShut,
                 callers, closePc, issued,
                 logged, loggedAtClose, wrappedClosedAt>>

\* a ticker that never fires
TickNever == FALSE

\* ticker.C has a tick to deliver
TickReady == TRUE

\* case <-ticker.C: flush
WorkerTick ==
  /\ ~Panicked
  /\ workerPc = "select"
  /\ TickReady
  /\ ticked' = TRUE
  /\ StartFlush(batch, "flush", "select")
  /\ UNCHANGED <<pipeVars, copyVars, callVars, wrappedFailed, logReturns, batchCh, batchChShut, callers,
                 closePc, issued,
                 logged, loggedAtClose, wrappedClosedAt>>

\* wrappedLogger.Log(data) returns, with an error or without; the error is
\* dropped (_ =); batch = batch[:0]
FlushReturn ==
  /\ ~Panicked
  /\ workerPc \in {"flush", "flushClose"}
  /\ batch' = <<>>
  /\ workerPc' = IF workerPc = "flush" THEN "select" ELSE "done"
  /\ doneClosed' = (doneClosed \/ workerPc = "flushClose")
  /\ \E failed \in BOOLEAN : wrappedFailed' = (wrappedFailed \/ failed)
  /\ UNCHANGED <<pipeVars, copyVars, callVars, logReturns, ticked, batchCh, batchChShut,
                 callers, closePc, issued,
                 logged, loggedAtClose, written, wrappedClosedAt>>

\* Close: close(sl.batchCh)
CloseCall ==
  /\ ~Panicked
  /\ closePc = "idle"
  /\ batchChShut' = TRUE
  /\ closePc' = "wait"
  /\ loggedAtClose' = logged
  /\ UNCHANGED <<pipeVars, copyVars, callVars, wrappedFailed, logReturns, ticked, workerPc, batchCh,
                 batch, doneClosed, callers,
                 issued, logged, written, wrappedClosedAt>>

\* a second Close, called by one of the callers after or while the first
\* runs: close(sl.batchCh) on the closed channel
CloseAgain(c) ==
  /\ ~Panicked
  /\ callers[c].pc = "idle"
  /\ batchChShut
  /\ callers' = [callers EXCEPT ![c].pc = "closePanic"]
  /\ UNCHANGED <<pipeVars, copyVars, callVars, wrappedFailed, logReturns, ticked, workerPc, batchCh,
                 batchChShut, batch, doneClosed,
                 closePc, issued, logged, loggedAtClose, written,
                 wrappedClosedAt>>

\* a Close that does not wait for the worker
DoneReadNoWait(d) == TRUE

\* <-sl.done
DoneRead(d) == d

\* Close: <-sl.done; return sl.wrappedLogger.Close()
CloseReturn ==
  /\ ~Panicked
  /\ closePc = "wait"
  /\ DoneRead(doneClosed)
  /\ wrappedClosedAt' = Len(written)
  /\ closePc' = "returned"
  /\ UNCHANGED <<pipeVars, copyVars, callVars, wrappedFailed, logReturns, ticked, workerPc, batchCh,
                 batchChShut, batch, doneClosed,
                 callers, issued, logged, loggedAtClose, written>>

LogNext ==
  \/ \E c \in DOMAIN callers : LogCall(c)
  \/ \E c \in DOMAIN callers : LogSend(c)
  \/ \E c \in DOMAIN callers : LogPanic(c)
  \/ WorkerRecv
  \/ WorkerRecvClosed
  \/ WorkerTick
  \/ FlushReturn
  \/ CloseCall
  \/ CloseReturn
  \/ \E c \in DOMAIN callers : CloseAgain(c)

\* the SequentialLogger with its callers
SpecLogger == InitLogger /\ [][LogNext]_vars

\* the SequentialLogger with a worker that is scheduled and a ticker that
\* keeps firing
FairSpecLogger ==
  /\ InitLogger
  /\ [][LogNext]_vars
  /\ WF_vars(WorkerRecv)
  /\ WF_vars(WorkerRecvClosed)
  /\ WF_vars(WorkerTick)
  /\ WF_vars(FlushReturn)

(***************************************************************************)
(* Properties                                                              *)
(***************************************************************************)
Range(f) == {f[i] : i \in DOMAIN f}

AllCommitsOk == \A i \in DOMAIN commitLog : commitLog[i].ok

CommitFailed == ~AllCommitsOk

NoFailure == ~nextFailed /\ processFailed = {} /\ AllCommitsOk

Returned == pipePc = "returned"

\* the Commit call commitLog[i] was the m-th call for its batch
RankInBatch(i) == Cardinality({j \in 1..i : commitLog[j].seq = commitLog[i].seq})

\* the cookies of the batches that took a sequence
CreatedCookies == UNION {Range(created[k].cookies) : k \in DOMAIN created}

\* C1: Commit is never called for a cookie of the batch with sequence s
\* before every cookie of every batch with a smaller sequence has been
\* committed successfully, and the calls for one batch follow the batch's
\* cookie list (both variants).
C1_CommitInSeqOrder ==
  \A i \in DOMAIN commitLog :
    LET e == commitLog[i] IN
      /\ e.seq + 1 \in DOMAIN created
      /\ RankInBatch(i) <= Len(created[e.seq + 1].cookies)
      /\ e.cookie = created[e.seq + 1].cookies[RankInBatch(i)]
      /\ \A s \in 0..(e.seq - 1) :
           \A k \in DOMAIN created[s + 1].cookies :
             \E j \in 1..(i - 1) :
               commitLog[j] = [cookie |-> created[s + 1].cookies[k], seq |-> s, ok |-> TRUE]

\* a batch arrived before its predecessor and waits in the buffer while the
\* predecessor, of two cookies, is half committed
C1_Witness ==
  /\ commitPc = "commit"
  /\ ci = 2
  /\ nextSeq + 1 \in DOMAIN buffer
  /\ nextSeq \in DOMAIN buffer

\* C2: in the single-accumulator Pipe the cookies passed to Commit are at
\* every moment a prefix of the cookies returned by Next, in call order.
C2_CommitPrefixOfNext ==
  /\ Len(commitLog) <= Len(nextLog)
  /\ \A i \in DOMAIN commitLog : commitLog[i].cookie = nextLog[i]

\* two workers, the third batch arrived before the second, the first is
\* committed
C2_Witness ==
  /\ variant = "single"
  /\ config.processWorkers >= 2
  /\ commitPc = "commit"
  /\ nextSeq >= 1
  /\ nextSeq + 1 \in DOMAIN buffer
  /\ Len(commitLog) >= 1

\* C3: in the multi-accumulator Pipe the Commit calls occur in the order in
\* which the cookies were returned by Next (a cookie is its Next call's
\* position).
C3_CommitInNextOrder ==
  \A i, j \in DOMAIN commitLog : i < j => commitLog[i].cookie < commitLog[j].cookie

\* C4: if no Next, Process or Commit call fails, Pipe returns nil, and when
\* it returns every cookie returned by Next has been passed to Commit
\* exactly once (both variants).
C4_AllCommittedOnce ==
  (Returned /\ NoFailure) =>
    /\ grErr = Nil
    /\ Len(commitLog) = Len(nextLog)
    /\ {commitLog[i].cookie : i \in DOMAIN commitLog} = Range(nextLog)

\* Pipe returned from a run of at least two batches whose last batch is
\* below the size threshold
C4_Witness ==
  /\ Returned
  /\ NoFailure
  /\ Len(created) >= 2
  /\ Len(created[Len(created)].items) < config.maxItems
  /\ Len(commitLog) = Len(nextLog)

\* C5: with processWorkers >= 1 and every collaborator call returning, every
\* fair execution of the single-accumulator Pipe returns.
C5_PipeReturns == <>Returned

\* Pipe returned after a Process failure that found the accumulator blocked
\* on the write of a numbered batch, which was never handed over
C5_Witness ==
  /\ Returned
  /\ processFailed # {}
  /\ runNextErr = Canceled
  /\ Len(created) > processCalls

\* C6: if a Process call fails and no Next or Commit call fails, Pipe
\* returns an error matching ErrProcessFailed, in every interleaving.
C6_ProcessFailureReported ==
  (Returned /\ processFailed # {} /\ ~nextFailed /\ AllCommitsOk) =>
    grErr = ErrProcessFailed

\* C7: if Process fails on the batch with sequence f, no cookie of a batch
\* with sequence >= f is ever passed to Commit, and what was committed stays
\* committed (the log of Commit calls only grows).
C7_NothingCommittedFromFailed ==
  [][/\ \A f \in processFailed' :
          \A i \in DOMAIN commitLog' : commitLog'[i].seq < f
     /\ Len(commitLog') >= Len(commitLog)
     /\ \A i \in DOMAIN commitLog : commitLog'[i] = commitLog[i]]_vars

\* Process failed on the second batch: the first is committed and the third
\* waits in the buffer for ever
C7_Witness ==
  /\ Returned
  /\ \E f \in processFailed : f >= 1 /\ f + 1 \in DOMAIN buffer
  /\ Len(commitLog) >= 1

FirstNextIsEof == variant = "single" /\ eof /\ nextLog = <<>>

\* C10: if the first Next call signals end-of-data, Process and Commit are
\* never invoked, no batch is formed, and Pipe returns nil, for every
\* maxItems including 0.
C10_NoDataNoCalls ==
  FirstNextIsEof =>
    /\ processCalls = 0
    /\ commitLog = <<>>
    /\ created = <<>>
    /\ Returned => grErr = Nil

\* Pipe returned from a run without data, with maxItems 0
C10_Witness ==
  /\ FirstNextIsEof
  /\ Returned
  /\ config.maxItems = 0

\* the number of items of the list that came from the pull with cookie c
CountTag(items, c) == Cardinality({i \in DOMAIN items : items[i] = c})

\* the number of items of the pull with cookie c in the batches of the set S
RECURSIVE ItemsIn(_, _)
ItemsIn(S, c) ==
  IF S = {} THEN 0
  ELSE LET b == CHOOSE x \in S : TRUE IN CountTag(b.items, c) + ItemsIn(S \ {b}, c)

\* the number of items in the batches of the set S
RECURSIVE TotalItems(_)
TotalItems(S) ==
  IF S = {} THEN 0
  ELSE LET b == CHOOSE x \in S : TRUE IN Len(b.items) + TotalItems(S \ {b})

RECURSIVE SumSeq(_)
SumSeq(q) == IF q = <<>> THEN 0 ELSE Head(q) + SumSeq(Tail(q))

\* C11: a batch is passed to Process by one worker only, and what reaches
\* the sequencer is a processed batch as it was emitted (sequence, items and
\* cookies); when Pipe returns nil every emitted batch was processed and
\* delivered, and the items of every pull were passed to Process exactly
\* once, so the lengths of the lists given to Process add up to the number
\* of items pulled (both variants).
C11_EveryItemProcessedOnce ==
  /\ Cardinality(processed) = processCalls
  /\ processed \subseteq Range(created)
  /\ delivered \subseteq processed
  /\ (Returned /\ grErr = Nil) =>
       /\ processed = Range(created)
       /\ delivered = processed
       /\ \A c \in DOMAIN pullSizes : ItemsIn(processed, c) = pullSizes[c]
       /\ TotalItems(processed) = SumSeq(pullSizes)

\* Pipe returned nil from a run of three pulls in two batches, one of them
\* holding two pulls
C11_Witness ==
  /\ Returned
  /\ grErr = Nil
  /\ Len(pullSizes) = 3
  /\ Cardinality(processed) = 2
  /\ \E b \in processed : Len(b.cookies) = 2

\* C12: no batch with an empty item list takes a sequence number, is sent
\* downstream or is passed to Process, for every maxItems >= 0 (the pulls of
\* the model are never empty).
C12_NoEmptyBatch ==
  /\ \A k \in DOMAIN created : created[k].items # <<>>
  /\ \A b \in processed : b.items # <<>>

\* C13, as stated: every batch that takes a sequence number holds at most
\* maxItems items.
C13_BatchSizeBounded ==
  \A k \in DOMAIN created : Len(created[k].items) <= config.maxItems

\* C13, amended: a batch holds at most maxItems items unless it is one pull
\* that alone has more than maxItems items; so when every pull has at most
\* maxItems items, every batch has at most maxItems items.
C13_BatchBoundedOrOnePull ==
  /\ \A k \in DOMAIN created :
       \/ Len(created[k].items) <= config.maxItems
       \/ Len(created[k].cookies) = 1
  /\ (\A c \in DOMAIN pullSizes : pullSizes[c] <= config.maxItems) =>
       \A k \in DOMAIN created : Len(created[k].items) <= config.maxItems

\* a batch of two pulls was closed at exactly maxItems items by a third
\* pull that did not fit
C13_Witness ==
  /\ variant = "single"
  /\ \E k \in DOMAIN created :
       /\ Len(created[k].cookies) = 2
       /\ Len(created[k].items) = config.maxItems
       /\ \E c \in DOMAIN pullSizes : c > created[k].cookies[2]

\* the items of the pulls with the cookies cs, pull after pull
RECURSIVE ItemsOf(_)
ItemsOf(cs) ==
  IF cs = <<>> THEN <<>>
  ELSE [i \in 1..pullSizes[Head(cs)] |-> Head(cs)] \o ItemsOf(Tail(cs))

\* C14: the items of a batch are the whole item lists of the pulls named by
\* its cookie list, which names each of them once, in pull order; no pull
\* is in two batches; and when Pipe returns nil every pull is in a batch
\* (single accumulator).
C14_PullNeverSplit ==
  /\ \A k \in DOMAIN created :
       LET b == created[k] IN
         /\ \A i, j \in DOMAIN b.cookies : i < j => b.cookies[i] < b.cookies[j]
         /\ Range(b.cookies) \subseteq DOMAIN pullSizes
         /\ b.items = ItemsOf(b.cookies)
  /\ \A k, l \in DOMAIN created :
       k # l => Range(created[k].cookies) \cap Range(created[l].cookies) = {}
  /\ (Returned /\ grErr = Nil) => CreatedCookies = DOMAIN pullSizes

\* a batch of two pulls was closed by a third pull, of two items, which is
\* the second batch
C14_Witness ==
  /\ variant = "single"
  /\ Len(created) = 2
  /\ created[1].cookies = <<1, 2>>
  /\ created[2].cookies = <<3>>
  /\ Len(created[2].items) = 2

\* the cookie of the last pull of the batch created[k] (0: no pull)
LastCookie(k) ==
  IF created[k].cookies = <<>> THEN 0
  ELSE created[k].cookies[Len(created[k].cookies)]

\* the batch created[k] was closed because the pull after its last one
\* would have exceeded maxItems
ClosedByExcess(k) ==
  /\ LastCookie(k) + 1 \in DOMAIN pullSizes
  /\ Len(created[k].items) + pullSizes[LastCookie(k) + 1] > config.maxItems

\* the batch created[k] was closed by the end of the data
ClosedByEof(k) ==
  /\ eof
  /\ k = Len(created)
  /\ LastCookie(k) = Len(pullSizes)
  /\ created[k].items # <<>>

\* every pull but the last has exactly maxItems items, the last one at most
FullPulls ==
  /\ pullSizes # <<>>
  /\ \A c \in DOMAIN pullSizes :
       IF c < Len(pullSizes) THEN pullSizes[c] = config.maxItems
       ELSE pullSizes[c] <= config.maxItems

\* C15: the batches of the single accumulator are the greedy packing of the
\* pulls: they take the pulls in order without a gap, a batch is closed only
\* by a pull that would exceed maxItems or by the end of the data, and it is
\* not closed while the next pull fits.  So on a nil return, pulls that add
\* up to at most maxItems are one batch and one Process call, and pulls of
\* exactly maxItems items (the last one possibly smaller) are one batch
\* each, committed in creation order.
C15_GreedyPacking ==
  /\ \A k \in DOMAIN created :
       /\ created[k].seq = k - 1
       /\ created[k].cookies =
            [i \in 1..Len(created[k].cookies) |->
               (IF k = 1 THEN 0 ELSE LastCookie(k - 1)) + i]
       /\ ClosedByExcess(k) \/ ClosedByEof(k)
       /\ Len(created[k].cookies) >= 2 => Len(created[k].items) <= config.maxItems
  /\ (Returned /\ grErr = Nil /\ pullSizes # <<>>
        /\ SumSeq(pullSizes) <= config.maxItems) =>
       /\ Len(created) = 1
       /\ processCalls = 1
       /\ Len(created[1].items) = SumSeq(pullSizes)
  /\ (Returned /\ grErr = Nil /\ FullPulls) =>
       /\ Len(created) = Len(pullSizes)
       /\ \A k \in DOMAIN created : Len(created[k].items) = pullSizes[k]
       /\ \A i \in DOMAIN commitLog : commitLog[i].seq = i - 1

\* the scaled 999-by-10 scenario: three pulls of 2, 2 and 1 items with
\* maxItems 2 ended in three batches and a nil return
C15_Witness ==
  /\ Returned
  /\ grErr = Nil
  /\ config.maxItems = 2
  /\ pullSizes = <<2, 2, 1>>
  /\ Len(created) = 3
  /\ Len(commitLog) = 3

\* C16: in the multi-accumulator Pipe, when the pulls add up to at most
\* maxItems items and Pipe returns nil, exactly one batch was formed and
\* Process was invoked exactly once.
C16_OneBatchMulti ==
  (variant = "multi" /\ Returned /\ grErr = Nil /\ Len(pullSizes) >= 2
     /\ SumSeq(pullSizes) <= config.maxItems) =>
    /\ Len(created) = 1
    /\ processCalls = 1

\* the number of goroutines of the pool B that are at pc
RECURSIVE CountAt(_, _, _)
CountAt(B, S, pc) ==
  IF S = {} THEN 0
  ELSE LET x == CHOOSE y \in S : TRUE IN
         (IF x.pc = pc THEN CopiesIn(x, B) ELSE 0) + CountAt(B, S \ {x}, pc)

\* the number of Consumer.Process invocations in flight
InFlight == CountAt(procs, BagToSet(procs), "process")

\* C17: the number of Process invocations in flight never exceeds the
\* configured pool size, and the pool keeps its configured size (the state
\* with two invocations in flight is C17_Witness).
C17_InFlightBounded ==
  /\ InFlight <= config.processWorkers
  /\ BagCardinality(procs) = config.processWorkers

\* two workers, two batches: both batches are inside Process at once
C17_Witness ==
  /\ variant = "single"
  /\ config.processWorkers = 2
  /\ Len(created) = 2
  /\ InFlight = 2

\* the worker is inside wrappedLogger.Log
InFlush == workerPc \in {"flush", "flushClose"}

\* C18: a Log call never waits for a wrappedLogger.Log in progress: while
\* the worker is inside a flush, the send of every caller that is in Log can
\* complete, however many Log calls were made during that flush.
C18_LogNeverWaitsForFlush ==
  \A c \in DOMAIN callers :
    (callers[c].pc = "send" /\ InFlush /\ ~batchChShut) => Len(batchCh) < bufSize

\* the strings of q, one after the other
RECURSIVE Flatten(_)
Flatten(q) == IF q = <<>> THEN <<>> ELSE Head(q) \o Flatten(Tail(q))

\* the messages of q, each followed by a newline
RECURSIVE Lines(_)
Lines(q) == IF q = <<>> THEN <<>> ELSE Head(q) \o <<NewLine>> \o Lines(Tail(q))

\* the messages the worker holds that are not yet passed to the wrapped
\* logger (inside a flush the batch is already passed)
Held == IF InFlush THEN <<>> ELSE batch

\* C19: what was passed to wrappedLogger.Log, in call order, followed by the
\* messages still in batch and in the channel, is the messages of the Log
\* calls in the order they completed (a Log call completes when its send on
\* batchCh completes), each followed by a newline; when the worker has
\* returned, everything logged has been written.
C19_WrittenInLogOrder ==
  /\ Flatten(written) \o Lines(Held) \o Lines(batchCh) = Lines(logged)
  /\ workerPc = "done" => Flatten(written) = Lines(logged)

\* four messages were written by a size flush and by the flush on close
C19_Witness ==
  /\ workerPc = "done"
  /\ ~ticked
  /\ Len(logged) = 4
  /\ Len(written) = 2
  /\ \A i \in DOMAIN logged : logged[i] # <<>>

\* C20: when Close has returned, the messages logged before Close was
\* called have all been passed to wrappedLogger.Log, the worker has
\* returned, and wrappedLogger.Close was called after the last
\* wrappedLogger.Log.
C20_CloseFlushesAll ==
  closePc = "returned" =>
    /\ workerPc = "done"
    /\ Len(Lines(loggedAtClose)) <= Len(Flatten(written))
    /\ SubSeq(Flatten(written), 1, Len(Lines(loggedAtClose))) = Lines(loggedAtClose)
    /\ wrappedClosedAt = Len(written)

\* Close was called with a message in batch and one in the channel, and
\* returned after the flush on close
C20_Witness ==
  /\ closePc = "returned"
  /\ Len(loggedAtClose) = 2
  /\ Len(written) = 1
  /\ ~Panicked

\* the number of messages in the data string d (a message of the model
\* holds no newline)
CountLines(d) == Cardinality({i \in DOMAIN d : d[i] = NewLine})

\* C21: if at least one and fewer than batchSize messages are logged and
\* Close is called and returns without the worker ever taking a tick,
\* wrappedLogger.Log was called exactly once, with all the messages in
\* Log-call order, each followed by a newline; with no message logged it
\* was not called.
C21_OneCombinedWrite ==
  (closePc = "returned" /\ ~ticked /\ Len(logged) < batchSize) =>
    written = IF logged = <<>> THEN <<>> ELSE <<Lines(logged)>>

\* Close returned after two messages were logged, without a tick
C21_Witness ==
  /\ closePc = "returned"
  /\ ~ticked
  /\ Len(logged) = 2
  /\ \A i \in DOMAIN logged : logged[i] # <<>>
  /\ ~Panicked

\* C22: the batch never holds more than batchSize messages, the worker is
\* never back at its select with batchSize messages in the batch, and no
\* data string passed to wrappedLogger.Log carries more than batchSize
\* messages.
C22_FlushBySize ==
  /\ Len(batch) <= batchSize
  /\ workerPc = "select" => Len(batch) < batchSize
  /\ \A i \in DOMAIN written : CountLines(written[i]) <= batchSize

\* the worker is inside the wrapped Log with batchSize messages, with no
\* tick and no Close so far
C22_Witness ==
  /\ workerPc = "flush"
  /\ ~ticked
  /\ closePc = "idle"
  /\ Len(batch) = batchSize
  /\ CountLines(written[Len(written)]) = batchSize

\* the messages passed to wrappedLogger.Log so far
WrittenCount == CountLines(Flatten(written))

\* C23: every message accepted by Log is eventually passed to
\* wrappedLogger.Log, whether or not another Log call or a Close call
\* follows, when the worker is scheduled and the ticker keeps firing (a
\* panic of a Log call on the closed channel ends the program).
C23_EventuallyWritten ==
  \A k \in 1..MaxLogs : (Len(logged) >= k) ~> (WrittenCount >= k \/ Panicked)

\* one message was logged and written by a tick flush; Close was not called
C23_Witness ==
  /\ ticked
  /\ closePc = "idle"
  /\ issued = 1
  /\ Len(logged) = 1
  /\ Len(written) = 1
  /\ workerPc = "select"

\* the sequences of the batches of the set S
Seqs(S) == {b.seq : b \in S}

\* C27: the k-th batch numbered takes sequence k-1 from the one counter, so
\* no two batches carry the same sequence (both variants); when Pipe returns
\* from a run without failure the sequences handed to the pool are 0..n-1;
\* and in the single-accumulator Pipe the batches handed to the pool are at
\* every moment those with the sequences 0..m-1, so they are handed over in
\* increasing sequence order.
C27_SeqUniqueNoGap ==
  /\ seqCounter = Len(created)
  /\ \A k \in DOMAIN created : created[k].seq = k - 1
  /\ (Returned /\ NoFailure) => Seqs(processed) = 0..(Len(created) - 1)
  /\ variant = "single" => Seqs(processed) = 0..(processCalls - 1)

\* two accumulation workers hold a numbered batch each at the same time
C27_Witness ==
  /\ variant = "multi"
  /\ Len(created) = 2
  /\ \E a1, a2 \in BagToSet(accs) :
       /\ a1.pc \in {"write", "writeEof"}
       /\ a2.pc \in {"write", "writeEof"}
       /\ a1.b.seq # a2.b.seq

\* the last Commit call failed
LastCommitFailed == commitLog # <<>> /\ ~commitLog[Len(commitLog)].ok

\* C29: runCommit returns ErrCommitSeqViolated only on reading the closed
\* channel with a non-empty buffer and nil only on reading it with an empty
\* buffer; its other returns are the cancellation and ErrCommitFailed after
\* a failed Commit; and while no collaborator call has failed the buffer is
\* empty whenever runCommit can read the closed channel, so it returns nil
\* (both variants).
C29_SeqViolatedOnClose ==
  /\ commitPc = "done" =>
       /\ runCommitErr \in {Nil, ErrCommitSeqViolated, ErrCommitFailed, Canceled}
       /\ runCommitErr = ErrCommitSeqViolated => (procChClosed /\ DOMAIN buffer # {})
       /\ runCommitErr = Nil => (procChClosed /\ DOMAIN buffer = {})
       /\ runCommitErr = ErrCommitFailed <=> LastCommitFailed
       /\ runCommitErr = Canceled => ctxDone
  /\ (NoFailure /\ procChClosed /\ commitPc = "recv") => DOMAIN buffer = {}
  /\ (NoFailure /\ commitPc = "done") => runCommitErr = Nil

\* runCommit returned ErrCommitSeqViolated with a later batch left in the
\* buffer, after one batch was committed
C29_Witness ==
  /\ commitPc = "done"
  /\ runCommitErr = ErrCommitSeqViolated
  /\ nextSeq = 1
  /\ DOMAIN buffer = {2}
  /\ AllCommitsOk

\* C30: while the sequencer waits for the next processed batch every key of
\* the buffer is greater than nextSeq, at any moment no key is below
\* nextSeq, and no Commit call is made twice for the same cookie of the same
\* batch, successful or not (both variants).
C30_BufferAboveNextSeq ==
  /\ commitPc = "recv" => \A s \in DOMAIN buffer : s > nextSeq
  /\ \A s \in DOMAIN buffer : s >= nextSeq
  /\ \A i, j \in DOMAIN commitLog :
       (i < j /\ commitLog[i].seq = commitLog[j].seq)
         => commitLog[i].cookie # commitLog[j].cookie

\* the sequencer waits for the second batch with the third one buffered,
\* the first one committed
C30_Witness ==
  /\ commitPc = "recv"
  /\ nextSeq = 1
  /\ DOMAIN buffer = {2}
  /\ Len(commitLog) = 1
  /\ pipePc = "running"
  /\ ~ctxDone

\* runCommit received a batch with a sequence below nextSeq (a committed
\* batch leaves the buffer, so a key below nextSeq is such a batch)
StaleReceived == \E q \in DOMAIN buffer : q < nextSeq

maxRetries == 3

\* src/pg_servers_hard/task_expected.go:35 (the attempts every call passes)
attempts == 3

ErrDBTemporal == "temporary db error"
errGetMaxID == "error get max ID"
errLoadRows == "error load rows"
errSaveRows == "error save rows"

\* fmt.Errorf(msg + ": %w", e)
Wrapf(msg, e) == <<msg>> \o e

\* errors.Is(e, target)
Is(e, target) == \E i \in DOMAIN e : e[i] = target

\* what one call of a Database method returns
Outcomes == {"ok", "temp", "perm"}

\* the outcomes of the successive calls one withRetry makes
Attempts == [1..(maxRetries + 1) -> Outcomes]

\* the error of a failed call
ErrOf(out, cause) == IF out = "temp" THEN <<ErrDBTemporal>> ELSE <<cause>>

Result(n, e) == [calls |-> n, err |-> e]

\* a withRetry that repeats the call after any error
RetryableAny(out) == out # "ok"

\* errors.Is(err, ErrDBTemporal)
Retryable(out) == out = "temp"

RECURSIVE withRetryFrom(_, _, _, _)
\* part_004 withRetry from its i-th call on; done: ctx is cancelled when the
\* backoff wait begins
withRetryFrom(outs, i, cause, done) ==
  IF i > maxRetries + 1
  THEN Result(maxRetries + 1, Wrapf("too many retries", <<ErrDBTemporal>>))
  ELSE IF outs[i] = "ok" THEN Result(i, NoErr)
  ELSE IF Retryable(outs[i])
       THEN IF done THEN Result(i, <<Canceled>>)
            ELSE withRetryFrom(outs, i + 1, cause, done)
  ELSE Result(i, ErrOf(outs[i], cause))

\* part_004: withRetry(ctx, fn)
withRetry(outs, cause, done) == withRetryFrom(outs, 1, cause, done)

\* pg_servers_easy: withRetry(fn), which has no context to wait on
withRetryEasy(outs, cause) == withRetryFrom(outs, 1, cause, FALSE)

RECURSIVE withRetryHardFrom(_, _, _, _)
\* pg_servers_hard withRetry from its i-th call on: every error is retried
withRetryHardFrom(outs, i, cause, done) ==
  IF outs[i] = "ok" THEN Result(i, NoErr)
  ELSE IF done THEN Result(i, <<Canceled>>)
  ELSE IF i = attempts THEN Result(i, ErrOf(outs[i], cause))
  ELSE withRetryHardFrom(outs, i + 1, cause, done)

\* pg_servers_hard: withRetry(ctx, 3, fn)
withRetryHard(outs, cause, done) == withRetryHardFrom(outs, 1, cause, done)

\* one call with no retry (pg_servers_easy calls GetMaxID directly)
NoRetry(outs, cause) ==
  IF outs[1] = "ok" THEN Result(1, NoErr) ELSE Result(1, ErrOf(outs[1], cause))

\* the retry policy around LoadRows and SaveRows
Retry(outs, cause) ==
  CASE copyVariant = "easy" -> withRetryEasy(outs, cause)
    [] copyVariant = "jobs" -> withRetryHard(outs, cause, copyCtxDone)
    [] OTHER -> withRetry(outs, cause, copyCtxDone)

\* the retry policy around GetMaxID
RetryMaxID(outs) ==
  IF copyVariant = "easy" THEN NoRetry(outs, errGetMaxID)
  ELSE Retry(outs, errGetMaxID)

\* a call of the run returned a non-temporary error
PermSeen(outs, r) == \E i \in 1..r.calls : outs[i] = "perm"

\* mockDB.GetMaxID: 0 for a table with no row
GetMaxID(data) == IF data = {} THEN 0 ELSE CHOOSE m \in data : \A x \in data : x <= m

RECURSIVE Ascending(_)
\* the ids of a set in increasing order
Ascending(S) ==
  IF S = {} THEN <<>>
  ELSE LET m == CHOOSE x \in S : \A y \in S : x <= y
       IN <<m>> \o Ascending(S \ {m})

\* mockDB.LoadRows: the rows with minID <= id < maxID, by increasing id
LoadRows(data, minID, maxID) == Ascending({x \in data : minID <= x /\ x < maxID})

\* mockDB.SaveRows
SaveRows(data, rows) == data \cup Range(rows)

FreshSaver == [pc |-> "recv", rows |-> <<>>]

DoneSaver == [pc |-> "done", rows |-> <<>>]

RECURSIVE splitOnBatches(_, _, _)
\* the intervals [start, end] that splitOnBatches puts on its channel
splitOnBatches(start, end, size) ==
  IF start > end THEN <<>>
  ELSE IF start + size > end THEN <<<<start, end>>>>
  ELSE <<<<start, start + size - 1>>>> \o splitOnBatches(start + size, end, size)

InitCopy ==
  /\ PipeOff
  /\ LoggerOff
  /\ CallsOff
  /\ copyVariant \in {"easy", "jobs", "errgroup"}
  /\ copyConfig \in [batchSize : 1..MaxRowBatch, workers : 1..MaxSavers]
  /\ full \in BOOLEAN
  /\ prod \in SUBSET (1..MaxID)
  /\ stats \in SUBSET (1..2)
  /\ stats0 = stats
  /\ copyPc = "start"
  /\ startID = 0
  /\ endID = 0
  /\ curID = 0
  /\ batchRows = <<>>
  /\ intervals = <<>>
  /\ rowsCh = <<>>
  /\ rowsChClosed = FALSE
  /\ savers = EmptyBag
  /\ copyCtxDone = FALSE
  /\ firstErr = NoErr
  /\ loadErr = NoErr
  /\ copyErr = NoErr
  /\ formed = <<>>
  /\ saveCalls = {}
  /\ loaded = FALSE
  /\ maxIDFailed = FALSE

\* the arguments and constants of the run
copyInputs == <<copyVariant, copyConfig, full, prod, stats0>>

\* keeps the first error, as errCh (one slot, non-blocking send) and the
\* errgroup (errOnce) do
FirstErr(cur, e) == IF cur = NoErr THEN e ELSE cur

\* CopyTable returns e; the jobs and errgroup variants run the deferred cancel
CopyReturn(e) ==
  /\ copyPc' = "returned"
  /\ copyErr' = e
  /\ copyCtxDone' = (copyCtxDone \/ copyVariant # "easy")

\* nextID := curID + uint64(batchSize), whatever batchRows holds
NextIDWhole(cur, rows) == cur + copyConfig.batchSize

\* nextID := curID + uint64(batchSize-len(batchRows))
NextID(cur, rows) == cur + (copyConfig.batchSize - Len(rows))

\* the head of the producing loop, for curID < endID { ... }: jobs tests ctx
\* first; when the loop ends the channel is closed
LoopHead(cur, end) ==
  /\ batchRows' = <<>>
  /\ IF cur < end
     THEN IF copyVariant = "jobs" /\ copyCtxDone
          THEN copyPc' = "waitCtx" /\ rowsChClosed' = TRUE
          ELSE copyPc' = "load" /\ rowsChClosed' = rowsChClosed
     ELSE copyPc' = "wait" /\ rowsChClosed' = TRUE

\* if full { startID = 0 } else { startID, err = statsDB.GetMaxID(ctx) }
GetStartID ==
  /\ copyPc = "start"
  /\ IF full
     THEN /\ startID' = 0
          /\ copyPc' = "end"
          /\ UNCHANGED <<copyErr, copyCtxDone, maxIDFailed>>
     ELSE \E outs \in Attempts :
            LET r == RetryMaxID(outs)
            IN /\ maxIDFailed' = (maxIDFailed \/ PermSeen(outs, r))
               /\ IF r.err = NoErr
                  THEN /\ startID' = GetMaxID(stats)
                       /\ copyPc' = "end"
                       /\ UNCHANGED <<copyErr, copyCtxDone>>
                  ELSE /\ startID' = startID
                       /\ CopyReturn(Wrapf("get STATS max ID", r.err))
  /\ UNCHANGED <<pipeVars, logVars, callVars, copyInputs, stats, endID,
                 curID, batchRows,
                 intervals, rowsCh, rowsChClosed, savers, firstErr, loadErr,
                 formed, saveCalls, loaded>>

\* endID, err := prodDB.GetMaxID(ctx); then the workers are started and the
\* producing loop is entered
GetEndID ==
  /\ copyPc = "end"
  /\ \E outs \in Attempts :
       LET r == RetryMaxID(outs)
           e == GetMaxID(prod)
       IN /\ maxIDFailed' = (maxIDFailed \/ PermSeen(outs, r))
          /\ IF r.err # NoErr
             THEN /\ CopyReturn(Wrapf("get PROD max ID", r.err))
                  /\ UNCHANGED <<endID, curID, batchRows, intervals,
                                 rowsChClosed, savers>>
             ELSE /\ endID' = e
                  /\ UNCHANGED copyErr
                  /\ IF copyVariant = "easy"
                     THEN /\ intervals' = splitOnBatches(startID, e, copyConfig.batchSize)
                          /\ copyPc' = "easy"
                          /\ UNCHANGED <<curID, batchRows, rowsChClosed, savers,
                                         copyCtxDone>>
                     ELSE /\ savers' = Pool(FreshSaver, copyConfig.workers)
                          /\ curID' = startID
                          /\ LoopHead(startID, e)
                          /\ UNCHANGED <<intervals, copyCtxDone>>
  /\ UNCHANGED <<pipeVars, logVars, callVars, copyInputs, stats, startID,
                 rowsCh,
                 firstErr, loadErr, formed, saveCalls, loaded>>

\* one turn of for len(batchRows) < batchSize && curID < endID { LoadRows }
ProducerLoad ==
  /\ copyPc = "load"
  /\ loaded' = TRUE
  /\ \E outs \in Attempts :
       LET nextID == NextID(curID, batchRows)
           r == Retry(outs, errLoadRows)
           rows == batchRows \o LoadRows(prod, curID, nextID)
       IN IF r.err # NoErr
          THEN /\ rowsChClosed' = TRUE
               /\ IF copyVariant = "jobs"
                  THEN /\ loadErr' = Wrapf("load rows", r.err)
                       /\ copyPc' = "waitLoad"
                       /\ UNCHANGED <<firstErr, copyCtxDone>>
                  ELSE /\ firstErr' = FirstErr(firstErr, Wrapf("load rows", r.err))
                       /\ copyCtxDone' = TRUE
                       /\ copyPc' = "wait"
                       /\ UNCHANGED loadErr
               /\ UNCHANGED <<curID, batchRows, formed>>
          ELSE /\ curID' = nextID
               /\ UNCHANGED <<firstErr, loadErr, copyCtxDone>>
               /\ IF Len(rows) < copyConfig.batchSize /\ nextID < endID
                  THEN /\ batchRows' = rows
                       /\ UNCHANGED <<copyPc, rowsChClosed, formed>>
                  ELSE IF copyVariant = "jobs" \/ Len(rows) > 0
                  THEN /\ batchRows' = rows
                       /\ copyPc' = "send"
                       /\ formed' = Append(formed, rows)
                       /\ UNCHANGED rowsChClosed
                  ELSE /\ LoopHead(nextID, endID)
                       /\ UNCHANGED formed
  /\ UNCHANGED <<pipeVars, logVars, callVars, copyInputs, stats, startID,
                 endID, intervals,
                 rowsCh, savers, copyErr, saveCalls, maxIDFailed>>

\* errgroup: case rowsCh <- batchRows meets a worker's case rows, ok := <-rowsCh
ProducerSend ==
  /\ copyVariant = "errgroup"
  /\ copyPc = "send"
  /\ \E w \in BagToSet(savers) :
       /\ w.pc = "recv"
       /\ savers' = Swap(savers, w, [pc |-> "save", rows |-> batchRows])
  /\ LoopHead(curID, endID)
  /\ UNCHANGED <<pipeVars, logVars, callVars, copyInputs, stats, startID,
                 endID, curID,
                 intervals, rowsCh, copyCtxDone, firstErr, loadErr, copyErr,
                 formed, saveCalls, loaded, maxIDFailed>>

\* errgroup: case <-gctx.Done() of the producing goroutine
ProducerCancel ==
  /\ copyVariant = "errgroup"
  /\ copyPc = "send"
  /\ copyCtxDone
  /\ copyPc' = "wait"
  /\ rowsChClosed' = TRUE
  /\ firstErr' = FirstErr(firstErr, <<Canceled>>)
  /\ UNCHANGED <<pipeVars, logVars, callVars, copyInputs, stats, startID,
                 endID, curID,
                 batchRows, intervals, rowsCh, savers, copyCtxDone, loadErr,
                 copyErr, formed, saveCalls, loaded, maxIDFailed>>

\* jobs: jobs <- batchRows, which blocks while the channel holds workers batches
JobsSend ==
  /\ copyVariant = "jobs"
  /\ copyPc = "send"
  /\ Len(rowsCh) < copyConfig.workers
  /\ rowsCh' = Append(rowsCh, batchRows)
  /\ LoopHead(curID, endID)
  /\ UNCHANGED <<pipeVars, logVars, callVars, copyInputs, stats, startID,
                 endID, curID,
                 intervals, savers, copyCtxDone, firstErr, loadErr, copyErr,
                 formed, saveCalls, loaded, maxIDFailed>>

\* jobs: for rows := range jobs
JobsRecv ==
  /\ copyVariant = "jobs"
  /\ rowsCh # <<>>
  /\ \E w \in BagToSet(savers) :
       /\ w.pc = "recv"
       /\ savers' = Swap(savers, w, [pc |-> "save", rows |-> Head(rowsCh)])
  /\ rowsCh' = Tail(rowsCh)
  /\ UNCHANGED <<pipeVars, logVars, callVars, copyInputs, stats, copyPc,
                 startID, endID,
                 curID, batchRows, intervals, rowsChClosed, copyCtxDone,
                 firstErr, loadErr, copyErr, formed, saveCalls, loaded,
                 maxIDFailed>>

\* a worker finds the channel closed and empty
SaverClosed ==
  /\ rowsChClosed
  /\ rowsCh = <<>>
  /\ \E w \in BagToSet(savers) :
       /\ w.pc = "recv"
       /\ savers' = Swap(savers, w, DoneSaver)
  /\ UNCHANGED <<pipeVars, logVars, callVars, copyInputs, stats, copyPc,
                 startID, endID,
                 curID, batchRows, intervals, rowsCh, rowsChClosed, copyCtxDone,
                 firstErr, loadErr, copyErr, formed, saveCalls, loaded,
                 maxIDFailed>>

\* errgroup: case <-gctx.Done() of a worker
SaverCancel ==
  /\ copyVariant = "errgroup"
  /\ copyCtxDone
  /\ \E w \in BagToSet(savers) :
       /\ w.pc = "recv"
       /\ savers' = Swap(savers, w, DoneSaver)
  /\ firstErr' = FirstErr(firstErr, <<Canceled>>)
  /\ UNCHANGED <<pipeVars, logVars, callVars, copyInputs, stats, copyPc,
                 startID, endID,
                 curID, batchRows, intervals, rowsCh, rowsChClosed, copyCtxDone,
                 loadErr, copyErr, formed, saveCalls, loaded, maxIDFailed>>

\* a worker saves the batch it holds: statsDB.SaveRows under the retry policy
SaverSave ==
  /\ \E w \in BagToSet(savers), outs \in Attempts :
       LET r == Retry(outs, errSaveRows)
       IN /\ w.pc = "save"
          /\ saveCalls' = saveCalls \cup {w.rows}
          /\ IF r.err = NoErr
             THEN /\ stats' = SaveRows(stats, w.rows)
                  /\ savers' = Swap(savers, w, FreshSaver)
                  /\ UNCHANGED <<firstErr, copyCtxDone>>
             ELSE /\ savers' = Swap(savers, w, DoneSaver)
                  /\ firstErr' = FirstErr(firstErr,
                                   IF copyVariant = "jobs" THEN r.err
                                   ELSE Wrapf("save rows", r.err))
                  /\ copyCtxDone' = TRUE
                  /\ UNCHANGED stats
  /\ UNCHANGED <<pipeVars, logVars, callVars, copyInputs, copyPc, startID,
                 endID, curID,
                 batchRows, intervals, rowsCh, rowsChClosed, loadErr, copyErr,
                 formed, loaded, maxIDFailed>>

\* wg.Wait() / g.Wait() returns and CopyTable returns
CopyWait ==
  /\ copyPc \in {"wait", "waitCtx", "waitLoad"}
  /\ AllDone(savers)
  /\ CopyReturn(CASE copyPc = "waitCtx" -> firstErr
                  [] copyPc = "waitLoad" -> loadErr
                  [] OTHER -> IF firstErr = NoErr THEN NoErr
                              ELSE Wrapf("copy failed", firstErr))
  /\ UNCHANGED <<pipeVars, logVars, callVars, copyInputs, stats, startID,
                 endID, curID,
                 batchRows, intervals, rowsCh, rowsChClosed, savers, firstErr,
                 loadErr, formed, saveCalls, loaded, maxIDFailed>>

\* easy: the loop takes an interval and loads its rows
EasyLoad ==
  /\ copyPc = "easy"
  /\ intervals # <<>>
  /\ loaded' = TRUE
  /\ \E outs \in Attempts :
       LET r == Retry(outs, errLoadRows)
           iv == Head(intervals)
           rows == LoadRows(prod, iv[1], iv[2] + 1)
       IN IF r.err # NoErr
          THEN /\ CopyReturn(Wrapf("cant get rows from db", r.err))
               /\ UNCHANGED <<batchRows, intervals, formed>>
          ELSE /\ batchRows' = rows
               /\ intervals' = Tail(intervals)
               /\ formed' = Append(formed, rows)
               /\ copyPc' = "easySave"
               /\ UNCHANGED <<copyErr, copyCtxDone>>
  /\ UNCHANGED <<pipeVars, logVars, callVars, copyInputs, stats, startID,
                 endID, curID,
                 rowsCh, rowsChClosed, savers, firstErr, loadErr, saveCalls,
                 maxIDFailed>>

\* easy: the loop saves the rows it loaded
EasySave ==
  /\ copyPc = "easySave"
  /\ saveCalls' = saveCalls \cup {batchRows}
  /\ \E outs \in Attempts :
       LET r == Retry(outs, errSaveRows)
       IN IF r.err # NoErr
          THEN /\ CopyReturn(Wrapf("cant save rows to db", r.err))
               /\ UNCHANGED stats
          ELSE /\ stats' = SaveRows(stats, batchRows)
               /\ copyPc' = "easy"
               /\ UNCHANGED <<copyErr, copyCtxDone>>
  /\ UNCHANGED <<pipeVars, logVars, callVars, copyInputs, startID, endID,
                 curID, batchRows,
                 intervals, rowsCh, rowsChClosed, savers, firstErr, loadErr,
                 formed, loaded, maxIDFailed>>

\* easy: the channel of intervals is closed and CopyTable returns nil
EasyDone ==
  /\ copyPc = "easy"
  /\ intervals = <<>>
  /\ CopyReturn(NoErr)
  /\ UNCHANGED <<pipeVars, logVars, callVars, copyInputs, stats, startID,
                 endID, curID,
                 batchRows, intervals, rowsCh, rowsChClosed, savers, firstErr,
                 loadErr, formed, saveCalls, loaded, maxIDFailed>>

CopyNext ==
  \/ GetStartID
  \/ GetEndID
  \/ ProducerLoad
  \/ ProducerSend
  \/ ProducerCancel
  \/ JobsSend
  \/ JobsRecv
  \/ SaverClosed
  \/ SaverCancel
  \/ SaverSave
  \/ CopyWait
  \/ EasyLoad
  \/ EasySave
  \/ EasyDone

\* CopyTable in its three variants
SpecCopy == InitCopy /\ [][CopyNext]_vars

\* ... where a goroutine that can take a step eventually takes one
FairSpecCopy == InitCopy /\ [][CopyNext]_vars /\ WF_vars(CopyNext)

\* the concurrent CopyTable has returned nil
ReturnedNil ==
  /\ copyVariant \in {"jobs", "errgroup"}
  /\ copyPc = "returned"
  /\ copyErr = NoErr

\* the rows CopyTable is asked to copy
ToCopy == IF full THEN prod ELSE {x \in prod : x >= GetMaxID(stats0)}

\* C24: when the concurrent CopyTable has returned nil, every row it was asked
\* to copy is in STATS: with full=true all of PROD (so that, STATS having held
\* only rows of PROD, both tables have the same max ID and the same number of
\* rows), with full=false every row of PROD whose id is at least the max ID
\* STATS had at the call.
C24_CopyComplete ==
  ReturnedNil =>
    /\ ToCopy \subseteq stats
    /\ (full /\ stats0 \subseteq prod) =>
         /\ GetMaxID(stats) = GetMaxID(prod)
         /\ Cardinality(stats) = Cardinality(prod)

\* C25: in the concurrent CopyTable every batch handed to SaveRows is one the
\* producing loop formed and has at most batchSize rows, every batch formed
\* before the last one formed has exactly batchSize rows, and so a batch of
\* fewer rows handed to SaveRows is the last one formed; PROD is any set of
\* ids, holes included.
C25_EvenBatches ==
  copyVariant \in {"jobs", "errgroup"} =>
    /\ \A i \in DOMAIN formed :
         /\ Len(formed[i]) <= copyConfig.batchSize
         /\ i < Len(formed) => Len(formed[i]) = copyConfig.batchSize
    /\ \A b \in saveCalls :
         /\ b \in Range(formed)
         /\ Len(b) <= copyConfig.batchSize
         /\ Len(b) < copyConfig.batchSize => b = formed[Len(formed)]

\* PROD has a hole at 3; the batch <<1, 2>> was filled by two LoadRows calls and
\* the last batch <<4>> is short; both were saved
C25_Witness ==
  /\ ReturnedNil
  /\ prod = {1, 2, 4}
  /\ copyConfig.batchSize = 2
  /\ formed = <<<<1, 2>>, <<4>>>>
  /\ saveCalls = {<<1, 2>>, <<4>>}

\* C26: once a GetMaxID call has failed with a non-temporary error, CopyTable
\* has returned an error that wraps that error (errors.Is(err, errGetMaxID)),
\* and no LoadRows and no SaveRows call is ever made.
C26_MaxIDErrorWrapped ==
  maxIDFailed =>
    /\ copyPc = "returned"
    /\ Is(copyErr, errGetMaxID)
    /\ ~loaded
    /\ saveCalls = {}

(***************************************************************************)
(* Cancellation, reorder buffer and stage errors of the pipeline           *)
(***************************************************************************)
\* C31: once a Process call has failed (which cancels the context of
\* runProcess's workers), no worker takes a further batch from batchCh and no
\* further Consumer.Process call starts.
C31_NoWorkAfterCancel ==
  [][processFailed # {} =>
       /\ processCalls' = processCalls
       /\ processed' = processed]_vars

\* the batches runCommit holds that arrived ahead of their turn
OutOfOrder == {q \in DOMAIN buffer : q > nextSeq}

\* C32: runCommit never holds more out-of-order batches than the pool has
\* workers, however many batches the stream has and however slow the worker
\* holding the batch with sequence nextSeq is.
C32_ReorderBufferBounded ==
  Cardinality(OutOfOrder) <= config.processWorkers

\* C33: when the multi-accumulator Pipe has returned from a run in which a Next
\* call failed, and no Process and no Commit call failed, the error it
\* returned matches ErrNextFailed.
C33_NextFailureReported ==
  (variant = "multi" /\ Returned /\ nextFailed /\ processFailed = {}
     /\ AllCommitsOk) => grErr = ErrNextFailed

(***************************************************************************)
(* CopyTable: termination, withRetry, splitOnBatches                       *)
(***************************************************************************)
\* jobs: a worker gave up on SaveRows (only workers put an error in errCh)
SaveFailed == copyVariant = "jobs" /\ firstErr # NoErr

\* C34: in the jobs variant, once SaveRows has failed for good in a worker,
\* CopyTable eventually returns.
C34_SaveFailureReturns == SaveFailed ~> (copyPc = "returned")

\* a withRetry call on its own: the outcomes of the calls of fn and whether
\* ctx is cancelled at the backoff wait (pg_servers_easy has no ctx)
InitRetry ==
  /\ PipeOff
  /\ LoggerOff
  /\ CopyOff
  /\ \E c \in [variant : {"easy", "ctx"}, outs : Attempts, done : BOOLEAN] :
       /\ c.variant = "easy" => ~c.done
       /\ retryIn = <<c>>
  /\ retryOut = NoCall
  /\ splitArgs = NoCall
  /\ splitPc = "none"
  /\ splitI = 0
  /\ splitSent = <<>>

\* the call runs and returns
RetryApply ==
  /\ retryIn # NoCall
  /\ retryOut = NoCall
  /\ LET c == retryIn[1]
     IN retryOut' = IF c.variant = "easy"
                    THEN <<withRetryEasy(c.outs, errLoadRows)>>
                    ELSE <<withRetry(c.outs, errLoadRows, c.done)>>
  /\ UNCHANGED <<pipeVars, logVars, copyVars, retryIn, splitArgs, splitPc,
                 splitI, splitSent>>

RetryNext == RetryApply

\* withRetry of pg_servers_easy and of part_004, for every behaviour of fn
SpecRetry == InitRetry /\ [][RetryNext]_vars

\* the first call of fn that does not fail with a temporary error (one past
\* the last call if none)
FirstFinal(outs) ==
  IF \E i \in DOMAIN outs : outs[i] # "temp"
  THEN CHOOSE i \in DOMAIN outs :
         outs[i] # "temp" /\ \A j \in 1..(i - 1) : outs[j] = "temp"
  ELSE Len(outs) + 1

\* C35: withRetry calls fn at most maxRetries + 1 = 4 times.  With the context
\* cancelled at the first backoff wait it stops after the call that failed
\* temporarily and returns the context error.  Otherwise it stops at the first
\* call that succeeds (returning the value) or fails with a non-temporary
\* error (returning that error, not retried), and after 4 temporary failures
\* it returns an error that wraps ErrDBTemporal.
C35_RetryPolicy ==
  retryOut # NoCall =>
    LET outs == retryIn[1].outs
        k == FirstFinal(outs)
        r == retryOut[1]
    IN /\ r.calls <= maxRetries + 1
       /\ maxRetries + 1 = 4
       /\ IF retryIn[1].done /\ k > 1
          THEN r = Result(1, <<Canceled>>)
          ELSE IF k > maxRetries + 1
          THEN /\ r.calls = maxRetries + 1
               /\ Is(r.err, ErrDBTemporal)
          ELSE IF outs[k] = "ok"
          THEN r = Result(k, NoErr)
          ELSE /\ r.calls = k
               /\ Is(r.err, errLoadRows)
               /\ ~Is(r.err, ErrDBTemporal)

\* four temporary failures in a row, the context not cancelled
C35_Witness ==
  /\ retryOut # NoCall
  /\ retryIn[1].variant = "ctx"
  /\ ~retryIn[1].done
  /\ \A i \in 1..4 : retryIn[1].outs[i] = "temp"
  /\ retryOut[1].calls = 4
  /\ Is(retryOut[1].err, ErrDBTemporal)


(***************************************************************************)
(* splitOnBatches on its own, with the width of its uint64 arithmetic      *)
(* (scaled to 0..MaxUint)                                                  *)
(***************************************************************************)
\* math.MaxUint64, scaled
MaxUint == 7

\* the largest batchSize a call is made with
MaxSplitSize == 3

\* sends followed in a call; no call whose arithmetic stays in range needs more
MaxSent == MaxUint + 2

Uint == 0..MaxUint

\* a + b in uint64
AddU(a, b) == (a + b) % (MaxUint + 1)

\* a - b in uint64
SubU(a, b) == (a - b + MaxUint + 1) % (MaxUint + 1)

\* the interval one pass of the loop sends
SplitInterval(i, end, size) ==
  IF AddU(i, size) > end THEN <<i, end>> ELSE <<i, SubU(AddU(i, size), 1)>>

InitSplit ==
  /\ PipeOff /\ LoggerOff /\ CopyOff
  /\ retryIn = NoCall
  /\ retryOut = NoCall
  /\ \E c \in [start : Uint, end : Uint, size : 1..MaxSplitSize] :
       /\ splitArgs = <<c>>
       /\ splitI = c.start
  /\ splitPc = "loop"
  /\ splitSent = <<>>

\* one pass of the loop: i <= end, send the interval, i += batchSize
SplitSend ==
  /\ splitPc = "loop"
  /\ splitI <= splitArgs[1].end
  /\ Len(splitSent) < MaxSent
  /\ splitSent' = Append(splitSent,
                         SplitInterval(splitI, splitArgs[1].end, splitArgs[1].size))
  /\ splitI' = AddU(splitI, splitArgs[1].size)
  /\ UNCHANGED <<pipeVars, logVars, copyVars, retryIn, retryOut, splitArgs, splitPc>>

\* i > end: the loop ends and the deferred close(ch) runs
SplitClose ==
  /\ splitPc = "loop"
  /\ splitI > splitArgs[1].end
  /\ splitPc' = "closed"
  /\ UNCHANGED <<pipeVars, logVars, copyVars, retryIn, retryOut, splitArgs, splitI,
                 splitSent>>

SplitNext == SplitSend \/ SplitClose

SpecSplit == InitSplit /\ [][SplitNext]_vars

\* the intervals sent so far are closed, at most size long, inside [start, end],
\* contiguous and increasing from start
SplitPrefixOk(c, s) ==
  /\ \A k \in 1..Len(s) :
       /\ s[k][1] <= s[k][2]
       /\ s[k][2] - s[k][1] + 1 <= c.size
       /\ c.start <= s[k][1]
       /\ s[k][2] <= c.end
  /\ \A k \in 1..(Len(s) - 1) : s[k + 1][1] = s[k][2] + 1
  /\ s # <<>> => s[1][1] = c.start

\* C36: the intervals splitOnBatches(start, end, batchSize) produces are closed,
\* pairwise disjoint, contiguous, increasing, at most batchSize long and
\* together cover exactly [start, end] when start <= end; none is produced
\* when start > end
C36_SplitCovers ==
  splitPc # "none" =>
    LET c == splitArgs[1]
        s == splitSent
    IN /\ SplitPrefixOk(c, s)
       /\ splitPc = "closed" =>
            IF c.start > c.end THEN s = <<>>
            ELSE s # <<>> /\ s[Len(s)][2] = c.end


(***************************************************************************)
(* SequentialLogger: the calls the wrapped logger receives                 *)
(***************************************************************************)
\* C37: wrappedLogger.Log is never called after wrappedLogger.Close,
\* wrappedLogger.Close is called only after the worker goroutine has
\* terminated, and wrappedLogger.Log is never called with an empty batch
C37_WrappedCallsOrdered ==
  /\ [](wrappedClosedAt # -1 =>
          /\ Len(written) = wrappedClosedAt
          /\ workerPc = "done"
          /\ doneClosed)
  /\ [][written' # written =>
          /\ wrappedClosedAt = -1
          /\ Len(batch') > 0
          /\ written' = Append(written, Data(batch'))]_vars

\* Close returned after a run with a tick, a close of the channel and at
\* least one call of wrappedLogger.Log
C37_Witness ==
  /\ closePc = "returned"
  /\ wrappedClosedAt = Len(written)
  /\ Len(written) >= 1
  /\ ticked
  /\ workerPc = "done"


(***************************************************************************)
(* SequentialLogger: use after Close                                       *)
(***************************************************************************)
\* a Log call whose send has not yet completed when the channel is closed
LateLog(c) == callers[c].pc = "send" /\ batchChShut

\* C38: a Log call that follows or races with Close, and a second Close
\* call, return no error value but panic (send on / close of the closed
\* batch channel) after which nothing runs, and Log returns nil for every
\* accepted message even if a wrappedLogger.Log call has failed
C38_NoGracefulMisuse ==
  /\ [](logReturns \subseteq {Nil})
  /\ [][\A c \in DOMAIN callers :
          /\ (LateLog(c) /\ callers'[c] # callers[c]) =>
               /\ callers'[c].pc = "panic"
               /\ logReturns' = logReturns
               /\ logged' = logged
          /\ (callers[c].pc = "idle" /\ batchChShut /\ callers'[c] # callers[c]
                /\ callers'[c].pc # "send") =>
               /\ callers'[c].pc = "closePanic"
               /\ wrappedClosedAt' = wrappedClosedAt
               /\ closePc' = closePc]_vars
  /\ [][~Panicked]_vars

\* a Log call raced with Close and panicked, after Log calls that returned
\* nil although a wrappedLogger.Log call had failed
C38_Witness ==
  /\ \E c \in DOMAIN callers : callers[c].pc = "panic"
  /\ wrappedFailed
  /\ logReturns = {Nil}
  /\ closePc = "wait"


(***************************************************************************)
(* The single-accumulator Pipe with processWorkers = 0                     *)
(*                                                                         *)
(* runProcess starts no worker, so no goroutine reads batchCh or writes    *)
(* procCh; the steps of the workers and of the sequencer's commits are     *)
(* never enabled and are left out of the next-state relation.              *)
(***************************************************************************)
InitNoWorkers ==
  /\ variant = "single"
  /\ config \in [maxItems : 0..MaxItems, processWorkers : {0}]
  /\ accs = Pool(FreshAcc, 1)
  /\ procs = Pool(FreshProc, PoolSize(config))
  /\ InitCommon
  /\ LoggerOff
  /\ CopyOff
  /\ CallsOff

NoWorkersNext ==
  \/ \E a \in BagToSet(accs) : NextData(a)
  \/ \E a \in BagToSet(accs) : NextEof(a)
  \/ \E a \in BagToSet(accs) : NextErr(a)
  \/ \E a \in BagToSet(accs) : AssignSeq(a)
  \/ RunNextClose
  \/ RunNextReturn
  \/ RunProcessClose
  \/ RunProcessReturn
  \/ CommitReadCancel
  \/ CommitReadClosed
  \/ PipeReturn

\* the Pipe with no worker, its goroutines scheduled fairly
FairSpecNoWorkers ==
  InitNoWorkers /\ [][NoWorkersNext]_vars /\ WF_vars(NoWorkersNext)

\* runNext is inside writeChanWithContext with its first batch
BlockedOnFirstHandoff ==
  /\ Len(created) = 1
  /\ \A a \in BagToSet(accs) : a.pc \in {"write", "writeEof"}
  /\ runNextPc = "run"
  /\ ~batchChClosed

\* runProcess and runCommit returned nil
ProcessAndCommitEndedNil ==
  /\ runProcessPc = "done"
  /\ runProcessErr = Nil
  /\ commitPc = "done"
  /\ runCommitErr = Nil

\* C39: with processWorkers = 0, once the Producer has yielded a batch the
\* Pipe never returns: runNext stays blocked on the hand-off of its first
\* batch, no error cancels the group, and runProcess and runCommit end with
\* nil
C39_NoWorkersNeverReturns ==
  /\ [](created # <<>> =>
          /\ BlockedOnFirstHandoff
          /\ pipePc = "running"
          /\ ~ctxDone
          /\ grErr = Nil
          /\ runProcessErr = Nil
          /\ runCommitErr = Nil
          /\ processCalls = 0)
  /\ (created # <<>>) ~> [](BlockedOnFirstHandoff /\ ProcessAndCommitEndedNil)

\* runNext is blocked on its first batch and the other two goroutines of the
\* group have returned nil
C39_Witness ==
  /\ config.processWorkers = 0
  /\ BlockedOnFirstHandoff
  /\ ProcessAndCommitEndedNil
  /\ pipePc = "running"

====
